---- MODULE Spec2Model ----
(***************************************************************************)
(* Returns-App: the capture-validate-upload-merge pipeline.                *)
(*   - lib/validation.ts          input validation and sanitizing          *)
(*   - components/ui/upload.ts    upload orchestrator, record reconciler   *)
(*   - components/ui/image-panel.tsx, form-data.tsx   the coordinator      *)
(* Text is a sequence of one-character strings; a nullable column is a     *)
(* sequence of length at most one (<<>> is null).                          *)
(***************************************************************************)
EXTENDS Integers, Sequences, FiniteSets, TLC

(***************************************************************************)
(* Bounds of the model                                                     *)
(***************************************************************************)
MaxCalls == 2
MaxRefs == 2
MaxReasonLen == 1

(***************************************************************************)
(* Text helpers (JavaScript string primitives used by the code)            *)
(***************************************************************************)
Range(s) == {s[i] : i \in 1..Len(s)}

NoDup(s) == \A i, j \in 1..Len(s) : i # j => s[i] # s[j]

SeqsUpTo(S, n) == UNION {[1..k -> S] : k \in 0..n}

Digits == {"0", "1", "2", "3", "4", "5", "6", "7", "8", "9"}

UpperSeq == <<"A", "B", "C", "D", "E", "F", "G", "H", "I", "J", "K", "L", "M",
              "N", "O", "P", "Q", "R", "S", "T", "U", "V", "W", "X", "Y", "Z">>

LowerSeq == <<"a", "b", "c", "d", "e", "f", "g", "h", "i", "j", "k", "l", "m",
              "n", "o", "p", "q", "r", "s", "t", "u", "v", "w", "x", "y", "z">>

UpperLetters == Range(UpperSeq)

LowerLetters == Range(LowerSeq)

WhiteSpace == {" ", "\n"}

DigitVal(c) == CHOOSE v \in 0..9 : <<"0", "1", "2", "3", "4", "5", "6", "7", "8", "9">>[v + 1] = c

\* String.prototype.toUpperCase, per character
ToUpperChar(c) ==
  IF c \in LowerLetters THEN UpperSeq[CHOOSE i \in 1..26 : LowerSeq[i] = c] ELSE c

ToUpperCase(s) == [i \in 1..Len(s) |-> ToUpperChar(s[i])]

\* String.prototype.toLowerCase, per character
ToLowerChar(c) ==
  IF c \in UpperLetters THEN LowerSeq[CHOOSE i \in 1..26 : UpperSeq[i] = c] ELSE c

ToLowerCase(s) == [i \in 1..Len(s) |-> ToLowerChar(s[i])]

\* String.prototype.includes
Includes(s, sub) ==
  \E i \in 0..(Len(s) - Len(sub)) : SubSeq(s, i + 1, i + Len(sub)) = sub

\* String.prototype.replace(/[set]/g, ''): drop every character of Drop
RemoveChars(s, Drop) == SelectSeq(s, LAMBDA c : c \notin Drop)

\* String.prototype.replace(/[^set]/g, ''): keep only the characters of Keep
KeepChars(s, Keep) == SelectSeq(s, LAMBDA c : c \in Keep)

RECURSIVE TrimStart(_)
TrimStart(s) ==
  IF s # <<>> /\ Head(s) \in WhiteSpace THEN TrimStart(Tail(s)) ELSE s

RECURSIVE TrimEnd(_)
TrimEnd(s) ==
  IF s # <<>> /\ s[Len(s)] \in WhiteSpace THEN TrimEnd(SubSeq(s, 1, Len(s) - 1)) ELSE s

\* String.prototype.trim
Trim(s) == TrimEnd(TrimStart(s))

\* the leading run of digits of s
RECURSIVE DigitPrefix(_)
DigitPrefix(s) ==
  IF s # <<>> /\ Head(s) \in Digits THEN <<Head(s)>> \o DigitPrefix(Tail(s)) ELSE <<>>

RECURSIVE DecimalValue(_)
DecimalValue(ds) ==
  IF ds = <<>> THEN 0 ELSE 10 * DecimalValue(SubSeq(ds, 1, Len(ds) - 1)) + DigitVal(ds[Len(ds)])

\* parseInt(value, 10): leading white space skipped, optional sign, then the
\* leading digits; NaN (nan |-> TRUE) when there are none
ParseInt(value) ==
  LET t == TrimStart(value)
      neg == t # <<>> /\ Head(t) = "-"
      u == IF t # <<>> /\ Head(t) \in {"-", "+"} THEN Tail(t) ELSE t
      ds == DigitPrefix(u)
  IN  IF ds = <<>> THEN [nan |-> TRUE, number |-> 0]
      ELSE [nan |-> FALSE, number |-> IF neg THEN 0 - DecimalValue(ds) ELSE DecimalValue(ds)]

(***************************************************************************)
(* lib/validation.ts                                                       *)
(***************************************************************************)
MAX_INPUT_LENGTH == 1000
MAX_ACCOUNT_NUMBER_LENGTH == 50
MAX_INVOICE_NUMBER_LENGTH == 50
MAX_R_NUMBER_LENGTH == 50

AlnumSep == Digits \cup UpperLetters \cup LowerLetters \cup {"-", "_"}

Invalid(msg) == [valid |-> FALSE, sanitized |-> <<>>, error |-> msg]

Valid(s) == [valid |-> TRUE, sanitized |-> s, error |-> ""]

\* a JavaScript string is falsy iff it is empty: (a || b)
OrElse(a, b) == IF a # <<>> THEN a ELSE b

validateAccountNumber(accountNumber, strictFormat) ==
  IF accountNumber = <<>> \/ Len(Trim(accountNumber)) = 0
  THEN Invalid("Account number is required")
  ELSE LET upper == ToUpperCase(Trim(accountNumber))
       IN  IF strictFormat
           THEN IF /\ Len(upper) = 6
                   /\ \A i \in 1..3 : upper[i] \in UpperLetters
                   /\ \A i \in 4..6 : upper[i] \in Digits
                THEN Valid(upper)
                ELSE Invalid("Account number must be 3 letters followed by 3 numbers (e.g., ABC123)")
           ELSE IF Len(upper) > MAX_ACCOUNT_NUMBER_LENGTH
                THEN Invalid("Account number must be less than 50 characters")
           ELSE LET sanitized == KeepChars(upper, Digits \cup UpperLetters \cup {"-", "_"})
                IN  IF Len(sanitized) = 0
                    THEN Invalid("Account number contains invalid characters")
                    ELSE Valid(sanitized)

validateInvoiceNumber(invoiceNumber, strictFormat) ==
  IF invoiceNumber = <<>> \/ Len(Trim(invoiceNumber)) = 0
  THEN Invalid("Invoice number is required")
  ELSE IF strictFormat
       THEN LET digitsOnly == KeepChars(Trim(invoiceNumber), Digits)
            IN  IF Len(digitsOnly) # 8
                THEN Invalid("Invoice number must be exactly 8 digits")
                ELSE Valid(digitsOnly)
       ELSE IF Len(invoiceNumber) > MAX_INVOICE_NUMBER_LENGTH
            THEN Invalid("Invoice number must be less than 50 characters")
       ELSE LET sanitized == KeepChars(Trim(invoiceNumber), AlnumSep)
            IN  IF Len(sanitized) = 0
                THEN Invalid("Invoice number contains invalid characters")
                ELSE Valid(sanitized)

validateRNumber(rNumber, strictFormat) ==
  IF rNumber = <<>> \/ Len(Trim(rNumber)) = 0
  THEN Invalid("R number is required")
  ELSE IF strictFormat
       THEN LET digitsOnly == KeepChars(Trim(rNumber), Digits)
            IN  IF Len(digitsOnly) # 8
                THEN Invalid("R number must be exactly 8 digits")
                ELSE Valid(digitsOnly)
       ELSE IF Len(rNumber) > MAX_R_NUMBER_LENGTH
            THEN Invalid("R number must be less than 50 characters")
       ELSE LET sanitized == KeepChars(Trim(rNumber), AlnumSep)
            IN  IF Len(sanitized) = 0
                THEN Invalid("R number contains invalid characters")
                ELSE Valid(sanitized)

sanitizeTextInput(text, maxLength) ==
  IF Len(text) > maxLength
  THEN Invalid("Text must be less than maxLength characters")
  ELSE Valid(Trim(RemoveChars(text, {"<", ">"})))

validateNumericString(value) ==
  IF value = <<>> \/ Len(Trim(value)) = 0
  THEN [valid |-> FALSE, number |-> 0, error |-> "Value is required"]
  ELSE LET num == ParseInt(value)
       IN  IF num.nan
           THEN [valid |-> FALSE, number |-> 0, error |-> "Value must be a valid number"]
           ELSE [valid |-> TRUE, number |-> num.number, error |-> ""]

MAX_FILE_SIZE == 5 * 1024 * 1024

IMAGE_JPEG == <<"i", "m", "a", "g", "e", "/", "j", "p", "e", "g">>

IMAGE_JPG == <<"i", "m", "a", "g", "e", "/", "j", "p", "g">>

IMAGE_PNG == <<"i", "m", "a", "g", "e", "/", "p", "n", "g">>

IMAGE_WEBP == <<"i", "m", "a", "g", "e", "/", "w", "e", "b", "p">>

IMAGE_GIF == <<"i", "m", "a", "g", "e", "/", "g", "i", "f">>

TEXT_HTML == <<"t", "e", "x", "t", "/", "h", "t", "m", "l">>

ALLOWED_IMAGE_TYPES == {IMAGE_JPEG, IMAGE_JPG, IMAGE_PNG, IMAGE_WEBP, IMAGE_GIF}

Accepted == [valid |-> TRUE, error |-> ""]

Rejected(msg) == [valid |-> FALSE, error |-> msg]

\* mutant of validateFileSize: a file of exactly the ceiling is refused too
validateFileSizeInclusive(size) ==
  IF size >= MAX_FILE_SIZE THEN Rejected("File size exceeds 5MB limit") ELSE Accepted

validateFileSize(size) ==
  IF size > MAX_FILE_SIZE THEN Rejected("File size exceeds 5MB limit") ELSE Accepted

validateFileType(mimeType) ==
  IF ToLowerCase(mimeType) \notin ALLOWED_IMAGE_TYPES
  THEN Rejected("Only image files (JPEG, PNG, WebP, GIF) are allowed")
  ELSE Accepted

\* a blob: its byte length, its declared type and its first (at most 4) bytes;
\* blob.slice(0, 4) of a shorter blob is shorter, and bytes[i] past it undefined
ByteAt(bytes, i) == IF i + 1 <= Len(bytes) THEN bytes[i + 1] ELSE -1

\* mutant of validateImageContent: every signature is compared on its first
\* two bytes only
validateImageContentTwoBytes(blob) ==
  LET bytes == SubSeq(blob.head, 1, IF Len(blob.head) < 4 THEN Len(blob.head) ELSE 4)
      isJPEG == ByteAt(bytes, 0) = 255 /\ ByteAt(bytes, 1) = 216
      isPNG == ByteAt(bytes, 0) = 137 /\ ByteAt(bytes, 1) = 80
      isGIF == ByteAt(bytes, 0) = 71 /\ ByteAt(bytes, 1) = 73
      isWebP == ByteAt(bytes, 0) = 82 /\ ByteAt(bytes, 1) = 73
  IN  IF ~isJPEG /\ ~isPNG /\ ~isGIF /\ ~isWebP
      THEN Rejected("Invalid image file format")
      ELSE Accepted

validateImageContent(blob) ==
  LET bytes == SubSeq(blob.head, 1, IF Len(blob.head) < 4 THEN Len(blob.head) ELSE 4)
      isJPEG == ByteAt(bytes, 0) = 255 /\ ByteAt(bytes, 1) = 216
      isPNG == /\ ByteAt(bytes, 0) = 137 /\ ByteAt(bytes, 1) = 80
               /\ ByteAt(bytes, 2) = 78 /\ ByteAt(bytes, 3) = 71
      isGIF == ByteAt(bytes, 0) = 71 /\ ByteAt(bytes, 1) = 73 /\ ByteAt(bytes, 2) = 70
      isWebP == /\ ByteAt(bytes, 0) = 82 /\ ByteAt(bytes, 1) = 73
                /\ ByteAt(bytes, 2) = 70 /\ ByteAt(bytes, 3) = 70
  IN  IF ~isJPEG /\ ~isPNG /\ ~isGIF /\ ~isWebP
      THEN Rejected("Invalid image file format")
      ELSE Accepted

(***************************************************************************)
(* The record store ('returns-app' table) and upload results               *)
(***************************************************************************)
Null == <<>>

Some(v) == <<v>>

\* the references a submission may carry, and what the forms can send
Refs == {"a", "b", "c"}

Chars == {"x", "<", " "}

Reasons == SeqsUpTo(Chars, MaxReasonLen)

InvoiceInputs == {<<"2", "1", "0", "0", "0", "0", "0", "1">>,
                  <<"2", "1", "0", "0", "0", "0", "0", "2">>}

AccountInputs == {<<"A", "B", "C", "1", "2", "3">>, <<"X", "Y", "Z", "7", "8", "9">>}

RNumberInputs == {<<"5", "6", "0", "1", "2", "3", "2", "2">>}

\* the open forms: form 1 is an overstock form, form 2 a damages form
Clients == {1, 2}

FormOf(c) == IF c = 1 THEN "overstock" ELSE "damages"

AccountOf(c) ==
  IF c = 1 THEN <<"X", "Y", "Z", "7", "8", "9">> ELSE <<"A", "B", "C", "1", "2", "3">>

\* an UploadResult: a success carries destPath and publicUrl, a failure error
SuccessResult(id, destPath, publicUrl) ==
  [itemId |-> id, destPath |-> Some(destPath), publicUrl |-> Some(publicUrl), error |-> Null]

\* mutant of ErrorResult: a failed item's result also names a path and a URL
ErrorResultWithPath(id, msg) ==
  [itemId |-> id, destPath |-> Some("unknown"), publicUrl |-> Some("unknown"),
   error |-> Some(msg)]

ErrorResult(id, msg) ==
  [itemId |-> id, destPath |-> Null, publicUrl |-> Null, error |-> Some(msg)]

\* uploadResults.filter((r) => !r.error && r.publicUrl).map((r) => r.publicUrl!)
SuccessfulUrls(uploadResults) ==
  LET ok == SelectSeq(uploadResults, LAMBDA r : r.error = Null /\ r.publicUrl # Null)
  IN  [i \in 1..Len(ok) |-> ok[i].publicUrl[1]]

\* mutant of MergeImages: every new reference is pushed
MergeImagesPushesAll(allImages, imageUrls) == allImages \o imageUrls

\* mutant of MergeImages: a new reference is looked up in the existing images only
MergeImagesAgainstExisting(allImages, imageUrls) ==
  allImages \o SelectSeq(imageUrls, LAMBDA u : u \notin Range(allImages))

\* imageUrls.forEach(url => { if (!allImages.includes(url)) allImages.push(url) })
RECURSIVE MergeImages(_, _)
MergeImages(allImages, imageUrls) ==
  IF imageUrls = <<>> THEN allImages
  ELSE MergeImages(IF Head(imageUrls) \in Range(allImages) THEN allImages
                   ELSE Append(allImages, Head(imageUrls)),
                   Tail(imageUrls))

\* mutant of MergeNotes: the new reason replaces the notes
MergeNotesOverwrites(existingNotes, sanitizedReason) ==
  IF sanitizedReason # <<>> THEN sanitizedReason ELSE existingNotes

\* the warehouse notes of a merge: existing notes, a newline, the new reason
MergeNotes(existingNotes, sanitizedReason) ==
  LET updatedWarehouseNotes == OrElse(existingNotes, <<>>)
  IN  IF sanitizedReason # <<>>
      THEN IF updatedWarehouseNotes # <<>>
           THEN updatedWarehouseNotes \o <<"\n">> \o sanitizedReason
           ELSE sanitizedReason
      ELSE updatedWarehouseNotes

\* let sanitizedReason = ""; if (reason) { ... sanitized || reason }
SanitizedReason(reason) ==
  IF reason = <<>> THEN <<>>
  ELSE LET reasonValidation == sanitizeTextInput(reason, MAX_INPUT_LENGTH)
       IN  IF reasonValidation.valid THEN OrElse(reasonValidation.sanitized, reason)
           ELSE <<>>

(***************************************************************************)
(* Upload orchestrator: uploadGalleryItem / uploadGalleryItems             *)
(***************************************************************************)
ReplaceOutside(s, Keep, by) == [i \in 1..Len(s) |-> IF s[i] \in Keep THEN s[i] ELSE by]

sanitizeFolder(name) == ReplaceOutside(Trim(name), AlnumSep, "_")

\* name.replace(/\.[^.]+$/, ""): the last dot and what follows it, if anything does
StripExtension(s) ==
  LET dots == {i \in 1..Len(s) : s[i] = "."}
  IN  IF dots = {} THEN s
      ELSE LET k == CHOOSE d \in dots : \A e \in dots : e <= d
           IN  IF k < Len(s) THEN SubSeq(s, 1, k - 1) ELSE s

\* replace(/_+/g, "_")
RECURSIVE CollapseUnderscores(_)
CollapseUnderscores(s) ==
  IF Len(s) < 2 THEN s
  ELSE IF s[1] = "_" /\ s[2] = "_" THEN CollapseUnderscores(Tail(s))
       ELSE <<s[1]>> \o CollapseUnderscores(Tail(s))

sanitizeBase(name) ==
  CollapseUnderscores(ReplaceOutside(Trim(StripExtension(name)), AlnumSep, "_"))

pickExt(mime) ==
  IF mime = <<>> THEN "jpg"
  ELSE IF Includes(mime, <<"p", "n", "g">>) THEN "png"
  ELSE IF Includes(mime, <<"w", "e", "b", "p">>) THEN "webp"
  ELSE IF Includes(mime, <<"g", "i", "f">>) THEN "gif"
  ELSE "jpg"

\* the destination: the folders of the upload instant (month_year/day/time) and
\* the timestamp of the file name are all read off the clock at that instant
DestPath(item, at) ==
  [at |-> at,
   folder |-> sanitizeFolder(IF item.invoiceNumber # Null THEN item.invoiceNumber[1]
                             ELSE item.isbn),
   base |-> sanitizeBase(item.isbn),
   ext |-> pickExt(item.blob.type)]

\* supabase.storage.from(bucket).getPublicUrl(destPath)
PublicUrl(destPath) == [publicUrl |-> destPath]

StorageFaults == {"none", "failed"}

\* mutant of StorageUpload: the put replaces the object a path already holds
StorageUploadUpsert(objects, destPath, file, fault) ==
  IF fault # "none" THEN [objects |-> objects, error |-> TRUE]
  ELSE [objects |-> {o \in objects : o.path # destPath} \cup {[path |-> destPath, file |-> file]},
        error |-> FALSE]

\* supabase.storage.from(bucket).upload(destPath, file, {upsert: false})
StorageUpload(objects, destPath, file, fault) ==
  IF fault # "none" THEN [objects |-> objects, error |-> TRUE]
  ELSE IF \E o \in objects : o.path = destPath THEN [objects |-> objects, error |-> TRUE]
  ELSE [objects |-> objects \cup {[path |-> destPath, file |-> file]}, error |-> FALSE]

Throws(msg, objects) ==
  [threw |-> TRUE, error |-> msg, destPath |-> Null, publicUrl |-> Null, objects |-> objects]

\* mutant of uploadGalleryItem: the file is put before it is validated
uploadGalleryItemPutsFirst(item, objects, at, fault) ==
  LET put == StorageUpload(objects, DestPath(item, at),
                           [source |-> item.id, type |-> item.blob.type], fault)
  IN  IF put.error THEN Throws("Failed to upload file. Please try again.", put.objects)
      ELSE IF ~validateFileSize(item.blob.size).valid
                \/ ~validateFileType(item.blob.type).valid
                \/ ~validateImageContent(item.blob).valid
           THEN Throws("File validation failed", put.objects)
      ELSE [threw |-> FALSE, error |-> "", destPath |-> Some(DestPath(item, at)),
            publicUrl |-> Some(PublicUrl(DestPath(item, at))), objects |-> put.objects]

uploadGalleryItem(item, objects, at, fault) ==
  LET sizeValidation == validateFileSize(item.blob.size)
      typeValidation == validateFileType(item.blob.type)
      contentValidation == validateImageContent(item.blob)
      destPath == DestPath(item, at)
      file == [source |-> item.id,
               type |-> IF item.blob.type # <<>> THEN item.blob.type
                        ELSE <<"i", "m", "a", "g", "e", "/">>]
      put == StorageUpload(objects, destPath, file, fault)
  IN  IF ~sizeValidation.valid THEN Throws(sizeValidation.error, objects)
      ELSE IF ~typeValidation.valid THEN Throws(typeValidation.error, objects)
      ELSE IF ~contentValidation.valid THEN Throws("Failed to validate image file", objects)
      ELSE IF put.error THEN Throws("Failed to upload file. Please try again.", put.objects)
      ELSE [threw |-> FALSE, error |-> "", destPath |-> Some(destPath),
            publicUrl |-> Some(PublicUrl(destPath)), objects |-> put.objects]

\* a call of uploadGalleryItems: its items and the results pushed so far
NoBatch == [pc |-> "idle", items |-> <<>>, results |-> <<>>]

StartBatch(items) ==
  [pc |-> IF Len(items) = 0 THEN "returned" ELSE "running", items |-> items,
   results |-> <<>>]

\* mutant of BatchTurn: no try/catch around the item, its error leaves the loop
BatchTurnNoCatch(batch, outcome) ==
  LET it == batch.items[Len(batch.results) + 1]
      results == Append(batch.results,
                        SuccessResult(it.id, outcome.destPath[1], outcome.publicUrl[1]))
  IN  IF outcome.threw THEN [batch EXCEPT !.pc = "thrown"]
      ELSE [batch EXCEPT !.results = results,
                         !.pc = IF Len(results) = Len(batch.items) THEN "returned"
                                ELSE "running"]

\* one turn of the for loop: try { push the result } catch { push the error }
BatchTurn(batch, outcome) ==
  LET it == batch.items[Len(batch.results) + 1]
      results == Append(batch.results,
                        IF outcome.threw THEN ErrorResult(it.id, outcome.error)
                        ELSE SuccessResult(it.id, outcome.destPath[1], outcome.publicUrl[1]))
  IN  [batch EXCEPT !.results = results,
                    !.pc = IF Len(results) = Len(batch.items) THEN "returned" ELSE "running"]

(***************************************************************************)
(* State                                                                   *)
(***************************************************************************)
VARIABLES
  rows,     \* the 'returns-app' table: the sequence of stored records
  calls,    \* per client, its call of insertOverstockData / insertDamagesData, or of updateSalesData
  now,      \* the clock (new Date(), Date.now())
  storage,  \* the objects of the storage bucket
  upl,      \* the running call of uploadGalleryItems
  gallery,  \* ImagePanel: the capture queue, newest first
  uploadResultsRef,  \* ImagePanel: the accumulated upload results (state and ref)
  invoiceNumberProp,  \* ImagePanel's invoiceNumber prop (the page's state)
  formData, \* FormData: the entered values
  loading,  \* FormData: a submission is in flight
  sub,      \* the running handleSubmit: where it is, and its locals
  toast,    \* the message shown last
  used,     \* captures made and submissions started so far
  menu,     \* the menu page: its props, its list and the fields of its details panel
  scan      \* BarcodeReader: a candidate of ten characters and the answer of isValidISBN10

storeVars == <<rows, calls>>

uploadVars == <<storage, upl>>

formVars == <<gallery, uploadResultsRef, invoiceNumberProp, formData, loading, sub, toast, used>>

vars == <<rows, calls, now, storage, upl, gallery, uploadResultsRef,
          invoiceNumberProp,
          formData, loading, sub, toast, used, menu, scan>>

\* the values of the status, team and action columns that occur, as text
StatusLogged == <<"L", "o", "g", "g", "e", "d">>

StatusAssessed == <<"A", "s", "s", "e", "s", "s", "e", "d">>

StatusCompleted == <<"C", "o", "m", "p", "l", "e", "t", "e", "d">>

TeamWarehouse == <<"W", "a", "r", "e", "h", "o", "u", "s", "e">>

TeamExport == <<"E", "x", "p", "o", "r", "t">>

ActionCredit == <<"C", "r", "e", "d", "i", "t">>

ActionPulp == <<"P", "u", "l", "p">>

\* a row of 'returns-app' as insertOverstockData / insertDamagesData build it
RowData(invoiceNum, rNum, accountNumber, imageUrls, createdAt, sanitizedReason) ==
  [InvoiceNumber |-> invoiceNum,
   rNumber |-> rNum,
   accountNumber |-> accountNumber,
   images |-> imageUrls,
   created_at |-> createdAt,
   sales_notes |-> <<>>,
   warehouse_notes |-> sanitizedReason,
   status |-> Some(StatusLogged),
   action |-> Null,
   team |-> Null]

RowsOf(table, invoiceNum) == SelectSeq(table, LAMBDA r : r.InvoiceNumber = invoiceNum)

\* error codes a store call can answer with (none: the call succeeds)
PermissionDenied == "42501"

ConnectionFailure == "08006"

UniqueViolation == "23505"

NotFound == "PGRST116"

StoreFaults == {"none", PermissionDenied, ConnectionFailure}

\* .from("returns-app").select("images, warehouse_notes").eq("InvoiceNumber", n).single()
StoreSelectSingle(table, invoiceNum, fault) ==
  LET found == RowsOf(table, invoiceNum)
  IN  IF fault # "none" THEN [data |-> Null, error |-> fault]
      ELSE IF Len(found) = 1
           THEN [data |-> Some([images |-> found[1].images,
                                warehouse_notes |-> found[1].warehouse_notes]),
                 error |-> "none"]
           ELSE [data |-> Null, error |-> NotFound]

\* mutant of StoreUpdateMerge: the row is replaced, its other columns defaulted
StoreUpdateReplacesRow(table, invoiceNum, allImages, updatedWarehouseNotes) ==
  [i \in 1..Len(table) |->
     IF table[i].InvoiceNumber = invoiceNum
     THEN [InvoiceNumber |-> invoiceNum, rNumber |-> Null, accountNumber |-> <<>>,
           images |-> allImages, created_at |-> table[i].created_at,
           sales_notes |-> <<>>, warehouse_notes |-> updatedWarehouseNotes,
           status |-> Some(StatusLogged), action |-> Null, team |-> Null]
     ELSE table[i]]

\* .update({images, warehouse_notes}).eq("InvoiceNumber", n).select()
StoreUpdateMerge(table, invoiceNum, allImages, updatedWarehouseNotes) ==
  [i \in 1..Len(table) |->
     IF table[i].InvoiceNumber = invoiceNum
     THEN [table[i] EXCEPT !.images = allImages,
                           !.warehouse_notes = updatedWarehouseNotes]
     ELSE table[i]]

\* mutant of StoreInsert: a table without a key on InvoiceNumber
StoreInsertAppends(table, rowData) == [table |-> Append(table, rowData), error |-> "none"]

\* .insert(rowData).select(): the table is keyed uniquely by InvoiceNumber
StoreInsert(table, rowData) ==
  IF Len(RowsOf(table, rowData.InvoiceNumber)) > 0
  THEN [table |-> table, error |-> UniqueViolation]
  ELSE [table |-> Append(table, rowData), error |-> "none"]

(***************************************************************************)
(* Record reconciler: insertOverstockData / insertDamagesData              *)
(***************************************************************************)
IdleCall ==
  [pc |-> "idle", variant |-> "none", invoiceNum |-> 0, rNum |-> Null,
   accountNumber |-> <<>>, imageUrls |-> <<>>, reason |-> <<>>, sanitizedReason |-> <<>>,
   existingData |-> Null, lookupError |-> "none", error |-> ""]

\* a call that has thrown keeps no locals: what it was for, and the failure
Thrown(call, msg) ==
  [IdleCall EXCEPT !.pc = "thrown", !.error = msg, !.variant = call.variant,
                   !.invoiceNum = call.invoiceNum, !.lookupError = call.lookupError]

\* mutant of Prepare: the check for a successful upload is missing
PrepareWithoutUploads(variant, invoiceNumber, accountNumber, returnsNumber, uploadResults, reason) ==
  LET invoiceValidation == validateInvoiceNumber(invoiceNumber, FALSE)
      accountValidation == validateAccountNumber(accountNumber, FALSE)
      rNumberValidation == validateRNumber(returnsNumber, FALSE)
      imageUrls == SuccessfulUrls(uploadResults)
      invoiceNumValidation ==
        validateNumericString(OrElse(invoiceValidation.sanitized, invoiceNumber))
      rNumValidation ==
        validateNumericString(OrElse(rNumberValidation.sanitized, returnsNumber))
      call == [IdleCall EXCEPT !.variant = variant]
  IN  IF ~invoiceValidation.valid THEN Thrown(call, invoiceValidation.error)
      ELSE IF ~accountValidation.valid THEN Thrown(call, accountValidation.error)
      ELSE IF variant = "overstock" /\ ~rNumberValidation.valid
           THEN Thrown(call, rNumberValidation.error)
      ELSE IF variant = "overstock" /\ (~invoiceNumValidation.valid \/ ~rNumValidation.valid)
           THEN Thrown(call, "Invoice number and R number must be valid numbers")
      ELSE IF variant = "damages" /\ ~invoiceNumValidation.valid
           THEN Thrown(call, "Invoice number must be a valid number")
      ELSE [call EXCEPT
              !.pc = "lookup",
              !.invoiceNum = invoiceNumValidation.number,
              !.rNum = IF variant = "overstock" THEN Some(rNumValidation.number) ELSE Null,
              !.accountNumber = OrElse(accountValidation.sanitized, accountNumber),
              !.imageUrls = imageUrls,
              !.reason = reason,
              !.sanitizedReason = SanitizedReason(reason)]

\* the synchronous part of a call, up to the lookup: validation, the successful
\* references, the numeric conversions and the sanitized reason
Prepare(variant, invoiceNumber, accountNumber, returnsNumber, uploadResults, reason) ==
  LET invoiceValidation == validateInvoiceNumber(invoiceNumber, FALSE)
      accountValidation == validateAccountNumber(accountNumber, FALSE)
      rNumberValidation == validateRNumber(returnsNumber, FALSE)
      imageUrls == SuccessfulUrls(uploadResults)
      invoiceNumValidation ==
        validateNumericString(OrElse(invoiceValidation.sanitized, invoiceNumber))
      rNumValidation ==
        validateNumericString(OrElse(rNumberValidation.sanitized, returnsNumber))
      call == [IdleCall EXCEPT !.variant = variant]
  IN  IF ~invoiceValidation.valid THEN Thrown(call, invoiceValidation.error)
      ELSE IF ~accountValidation.valid THEN Thrown(call, accountValidation.error)
      ELSE IF variant = "overstock" /\ ~rNumberValidation.valid
           THEN Thrown(call, rNumberValidation.error)
      ELSE IF Len(imageUrls) = 0 THEN Thrown(call, "No successful uploads to insert")
      ELSE IF variant = "overstock" /\ (~invoiceNumValidation.valid \/ ~rNumValidation.valid)
           THEN Thrown(call, "Invoice number and R number must be valid numbers")
      ELSE IF variant = "damages" /\ ~invoiceNumValidation.valid
           THEN Thrown(call, "Invoice number must be a valid number")
      ELSE [call EXCEPT
              !.pc = "lookup",
              !.invoiceNum = invoiceNumValidation.number,
              !.rNum = IF variant = "overstock" THEN Some(rNumValidation.number) ELSE Null,
              !.accountNumber = OrElse(accountValidation.sanitized, accountNumber),
              !.imageUrls = imageUrls,
              !.reason = reason,
              !.sanitizedReason = SanitizedReason(reason)]

\* mutant of AfterLookup: every lookup error is taken for "not found"
AfterLookupTakesErrorForMiss(call, answer) ==
  IF answer.data # Null
  THEN [call EXCEPT !.pc = "update", !.existingData = answer.data,
                    !.lookupError = answer.error]
  ELSE [call EXCEPT !.pc = "insert", !.lookupError = answer.error]

\* the answer to the lookup decides the branch: abort, merge or insert
AfterLookup(call, answer) ==
  IF answer.error # "none" /\ answer.error # NotFound
  THEN Thrown([call EXCEPT !.lookupError = answer.error],
              "Failed to check for existing record. Please try again.")
  ELSE IF answer.data # Null
       THEN [call EXCEPT !.pc = "update", !.existingData = answer.data,
                         !.lookupError = answer.error]
       ELSE [call EXCEPT !.pc = "insert", !.lookupError = answer.error]

\* the whole call up to the moment its lookup has been answered
Reconcile(table, variant, invoiceNumber, accountNumber, returnsNumber, uploadResults, reason, fault) ==
  LET call == Prepare(variant, invoiceNumber, accountNumber, returnsNumber,
                      uploadResults, reason)
  IN  IF call.pc = "thrown" THEN call
      ELSE AfterLookup(call, StoreSelectSingle(table, call.invoiceNum, fault))

\* the record written by the merge branch
AllImages(call) == MergeImages(call.existingData[1].images, call.imageUrls)

UpdatedWarehouseNotes(call) ==
  MergeNotes(call.existingData[1].warehouse_notes, call.sanitizedReason)

UpdateErrorMessage(code) ==
  IF code = PermissionDenied
  THEN "You do not have permission to perform this action. Please contact your administrator."
  ELSE "Failed to update existing record. Please try again."

InsertErrorMessage(code) ==
  IF code = PermissionDenied
  THEN "You do not have permission to perform this action. Please contact your administrator."
  ELSE "Failed to save data. Please try again."

\* the upload results a caller can hand over: successes, each with its public
\* URL, and failed items in between
ResultLists == SeqsUpTo(Refs \cup {"error"}, MaxRefs)

AsUploadResults(rs) ==
  [i \in 1..Len(rs) |->
     IF rs[i] = "error" THEN ErrorResult(i, "Failed to upload file. Please try again.")
     ELSE SuccessResult(i, rs[i], rs[i])]

\* a call starts; validation, and the store answers its lookup
insertOverstockData(c, invoiceNumber, accountNumber, returnsNumber, uploadResults, reason) ==
  /\ calls[c].pc \in {"idle", "returned", "thrown"}
  /\ \E fault \in StoreFaults :
       calls' = [calls EXCEPT ![c] =
                   Reconcile(rows, "overstock", invoiceNumber, accountNumber,
                             returnsNumber, uploadResults, reason, fault)]
  /\ UNCHANGED rows

insertDamagesData(c, invoiceNumber, accountNumber, uploadResults, reason) ==
  /\ calls[c].pc \in {"idle", "returned", "thrown"}
  /\ \E fault \in StoreFaults :
       calls' = [calls EXCEPT ![c] =
                   Reconcile(rows, "damages", invoiceNumber, accountNumber,
                             <<>>, uploadResults, reason, fault)]
  /\ UNCHANGED rows

\* mutant of UpdateExisting: images and notes are written one after the other,
\* and a failure of the second write leaves the first in place
UpdateExistingInTwoWrites(c) ==
  /\ calls[c].pc = "update"
  /\ \E fault \in StoreFaults :
       IF fault # "none"
       THEN /\ calls' = [calls EXCEPT ![c] = Thrown(@, UpdateErrorMessage(fault))]
            /\ rows' = StoreUpdateMerge(rows, calls[c].invoiceNum, AllImages(calls[c]),
                                        calls[c].existingData[1].warehouse_notes)
       ELSE /\ rows' = StoreUpdateMerge(rows, calls[c].invoiceNum, AllImages(calls[c]),
                                        UpdatedWarehouseNotes(calls[c]))
            /\ calls' = [calls EXCEPT ![c].pc = "returned"]

\* the merge branch's write reaches the store and its answer comes back
UpdateExisting(c) ==
  /\ calls[c].pc = "update"
  /\ \E fault \in StoreFaults :
       IF fault # "none"
       THEN /\ calls' = [calls EXCEPT ![c] = Thrown(@, UpdateErrorMessage(fault))]
            /\ rows' = rows
       ELSE /\ rows' = StoreUpdateMerge(rows, calls[c].invoiceNum, AllImages(calls[c]),
                                        UpdatedWarehouseNotes(calls[c]))
            /\ calls' = [calls EXCEPT ![c].pc = "returned"]

\* the insert branch's write reaches the store and its answer comes back
InsertNew(c) ==
  /\ calls[c].pc = "insert"
  /\ \E fault \in StoreFaults :
       IF fault # "none"
       THEN /\ calls' = [calls EXCEPT ![c] = Thrown(@, InsertErrorMessage(fault))]
            /\ rows' = rows
       ELSE LET answer == StoreInsert(rows, RowData(calls[c].invoiceNum, calls[c].rNum,
                                                    calls[c].accountNumber,
                                                    calls[c].imageUrls, now,
                                                    calls[c].sanitizedReason))
            IN  /\ rows' = answer.table
                /\ calls' = [calls EXCEPT ![c] =
                               IF answer.error = "none" THEN [@ EXCEPT !.pc = "returned"]
                               ELSE Thrown(@, InsertErrorMessage(answer.error))]

\* the table holds one record when the forms open: logged by an earlier first
\* submission for invoice 21000001 and since assessed (updateSalesData)
LoggedBefore ==
  [RowData(21000001, Some(56012321), <<"A", "B", "C", "1", "2", "3">>, <<"a", "b">>, 0,
           <<"x">>)
     EXCEPT !.status = Some(StatusAssessed), !.team = Some(TeamWarehouse),
            !.action = Some(ActionCredit),
            !.sales_notes = <<"o", "k">>]

(***************************************************************************)
(* The reconciler under concurrent submissions of two forms               *)
(***************************************************************************)
EmptyForm == [creditNumber |-> <<>>, rNumber |-> <<>>, accNumber |-> <<>>, reason |-> <<>>]

IdleSubmit == [pc |-> "idle", formData |-> EmptyForm, currentUploadResults |-> <<>>,
               finalUploadResults |-> <<>>]

\* the menu page as it mounts: nothing selected, the status field "Completed"
MenuState(requireTeamAndActionForCompleted, showOnlyCompleted) ==
  [requireTeamAndActionForCompleted |-> requireTeamAndActionForCompleted,
   showOnlyCompleted |-> showOnlyCompleted,
   dataList |-> <<>>, fetching |-> TRUE,
   invoiceNumber |-> <<>>, warehouse_notes |-> <<>>, sales_notes |-> <<>>,
   allocated |-> <<>>, action |-> <<>>, status |-> StatusCompleted,
   loading |-> FALSE, pc |-> "idle", updates |-> 0]

\* the Final page: completed records only, no team or action required
NoMenu == MenuState(FALSE, TRUE)

\* no candidate has been read
NoScan == [isbn10 |-> <<>>, valid |-> Null]

NoForm ==
  /\ menu = NoMenu
  /\ scan = NoScan
  /\ gallery = <<>>
  /\ uploadResultsRef = <<>>
  /\ invoiceNumberProp = <<>>
  /\ formData = EmptyForm
  /\ loading = FALSE
  /\ sub = IdleSubmit
  /\ toast = ""
  /\ used = [captures |-> 0, submits |-> 0]

InitReconcile ==
  /\ rows = <<LoggedBefore>>
  /\ calls = [c \in Clients |-> IdleCall]
  /\ now = 0
  /\ storage = {}
  /\ upl = NoBatch
  /\ NoForm

\* a form's call, with the upload results and the reason it submits
Submit(c, inv, rs, reason) ==
  /\ now < MaxCalls
  /\ now' = now + 1
  /\ \/ /\ FormOf(c) = "overstock"
        /\ \E rn \in RNumberInputs :
             insertOverstockData(c, inv, AccountOf(c), rn, AsUploadResults(rs), reason)
     \/ /\ FormOf(c) = "damages"
        /\ insertDamagesData(c, inv, AccountOf(c), AsUploadResults(rs), reason)
  /\ UNCHANGED <<uploadVars, formVars>>

NextReconcile ==
  \E c \in Clients :
    \/ \E inv \in InvoiceInputs, rs \in ResultLists, reason \in Reasons :
         Submit(c, inv, rs, reason) /\ UNCHANGED <<menu, scan>>
    \/ UpdateExisting(c) /\ UNCHANGED <<now, uploadVars, formVars, menu, scan>>
    \/ InsertNew(c) /\ UNCHANGED <<now, uploadVars, formVars, menu, scan>>

SpecReconcile == InitReconcile /\ [][NextReconcile]_vars

(***************************************************************************)
(* uploadGalleryItems on its own: any batch of items, any storage answers  *)
(***************************************************************************)
MaxBatch == 3

\* blobs a capture device or a picker can hand over: a JPEG, a PNG, a JPEG one
\* byte over the ceiling, an HTML page, a file declared PNG that is none, and
\* the empty placeholder blob
JpegBlob == [size |-> 1024, type |-> IMAGE_JPEG, head |-> <<255, 216, 255, 224>>]

PngBlob == [size |-> 2048, type |-> IMAGE_PNG, head |-> <<137, 80, 78, 71>>]

HugeBlob == [size |-> MAX_FILE_SIZE + 1, type |-> IMAGE_JPEG, head |-> <<255, 216, 255, 224>>]

HtmlBlob == [size |-> 512, type |-> TEXT_HTML, head |-> <<60, 104, 116, 109>>]

SpoofedBlob == [size |-> 512, type |-> IMAGE_PNG, head |-> <<60, 104, 116, 109>>]

EmptyBlob == [size |-> 0, type |-> <<>>, head |-> <<>>]

Blobs == {JpegBlob, HugeBlob, HtmlBlob, SpoofedBlob}

Isbn == <<"0", "3", "0", "6", "4", "0", "6", "1", "5", "2">>

GalleryItem(id, isbn, blob) ==
  [id |-> id, isbn |-> isbn, blob |-> blob, uploaded |-> FALSE, uploading |-> FALSE,
   assetUrl |-> FALSE, invoiceNumber |-> Null]

Batches ==
  {[i \in 1..Len(bs) |-> GalleryItem(i, Isbn, bs[i])] : bs \in SeqsUpTo(Blobs, MaxBatch)}

\* the next item of the running batch is uploaded, dt after the last reading of
\* the clock
\* mutant of UploadNext: the put of the next item is issued together with the
\* put of the current one, without awaiting its outcome
UploadNextUnawaited(dt) ==
  /\ upl.pc = "running"
  /\ \E fault \in StorageFaults :
       LET it == upl.items[Len(upl.results) + 1]
           outcome == uploadGalleryItem(it, storage, now + dt, fault)
           turned == BatchTurn(upl, outcome)
           second == uploadGalleryItem(turned.items[Len(turned.results) + 1],
                                       outcome.objects, now + dt + 1, fault)
       IN  /\ now' = now + dt
           /\ IF turned.pc = "running"
              THEN storage' = second.objects /\ upl' = BatchTurn(turned, second)
              ELSE storage' = outcome.objects /\ upl' = turned

UploadNext(dt) ==
  /\ upl.pc = "running"
  /\ \E fault \in StorageFaults :
       LET it == upl.items[Len(upl.results) + 1]
           outcome == uploadGalleryItem(it, storage, now + dt, fault)
       IN  /\ now' = now + dt
           /\ storage' = outcome.objects
           /\ upl' = BatchTurn(upl, outcome)

InitUpload ==
  /\ rows = <<>>
  /\ calls = [c \in Clients |-> IdleCall]
  /\ now = 0
  /\ storage = {}
  /\ \E items \in Batches : upl = StartBatch(items)
  /\ NoForm

NextUpload == \E dt \in {0, 1} : UploadNext(dt) /\ UNCHANGED <<storeVars, formVars, menu, scan>>

SpecUpload == InitUpload /\ [][NextUpload]_vars

(***************************************************************************)
(* The Damages page: ImagePanel and FormData around uploader and reconciler *)
(***************************************************************************)
MaxItems == 2

MaxSubmits == 2

\* the page's form is a damages form: its calls are those of client 2
DamagesPage == 2

NotAuthIsbn == <<"N", "/", "A">>

Take(s, n) == SubSeq(s, 1, IF Len(s) < n THEN Len(s) ELSE n)

\* handleChange's formatting of the account number and of the invoice number
FormatAccNumber(value) ==
  LET upper == KeepChars(ToUpperCase(value), UpperLetters \cup Digits)
  IN  Take(KeepChars(upper, UpperLetters), 3) \o Take(KeepChars(upper, Digits), 3)

FormatDigits(value) == Take(KeepChars(value, Digits), 8)

\* what can be typed into the fields
Typed ==
  [creditNumber |-> {<<"2", "1", "0", "0", "-", "0", "0", "0", "1">>},
   accNumber |-> {<<"a", "b", "c", "1", "2", "3">>},
   reason |-> {<<"x">>}]

handleMarkUploaded(s, id) ==
  [i \in 1..Len(s) |->
     IF s[i].id = id THEN [s[i] EXCEPT !.uploaded = TRUE, !.uploading = FALSE] ELSE s[i]]

\* mutant of handleUnmarkUploaded: only the uploading flag is reset
handleUnmarkKeepsUploaded(s, itemIds) ==
  [i \in 1..Len(s) |->
     IF s[i].id \in itemIds THEN [s[i] EXCEPT !.uploading = FALSE] ELSE s[i]]

handleUnmarkUploaded(s, itemIds) ==
  [i \in 1..Len(s) |->
     IF s[i].id \in itemIds THEN [s[i] EXCEPT !.uploaded = FALSE, !.uploading = FALSE]
     ELSE s[i]]

handleSetUploading(s, ids, uploading) ==
  [i \in 1..Len(s) |->
     IF s[i].id \in ids THEN [s[i] EXCEPT !.uploading = uploading] ELSE s[i]]

RECURSIVE MarkAll(_, _)
MarkAll(s, results) ==
  IF results = <<>> THEN s
  ELSE MarkAll(IF Head(results).error = Null THEN handleMarkUploaded(s, Head(results).itemId)
               ELSE s,
               Tail(results))

\* a photo comes from the barcode reader into the queue
handleCapture(blob) ==
  /\ used.captures < MaxItems
  /\ used' = [used EXCEPT !.captures = @ + 1]
  /\ gallery' = IF blob.size = 0 THEN gallery
                ELSE <<GalleryItem(used.captures + 1, Isbn, blob)>> \o gallery
  /\ UNCHANGED <<storeVars, now, uploadVars, uploadResultsRef, invoiceNumberProp,
                 formData, loading, sub, toast>>

\* the "not authorised" placeholder is queued: its blob is fetched on upload
handleAddNotAuth ==
  /\ used.captures < MaxItems
  /\ used' = [used EXCEPT !.captures = @ + 1]
  /\ gallery' = <<[GalleryItem(used.captures + 1, NotAuthIsbn, EmptyBlob)
                     EXCEPT !.assetUrl = TRUE]>> \o gallery
  /\ UNCHANGED <<storeVars, now, uploadVars, uploadResultsRef, invoiceNumberProp,
                 formData, loading, sub, toast>>

handleRemove(id) ==
  /\ \E i \in 1..Len(gallery) : gallery[i].id = id
  /\ gallery' = SelectSeq(gallery, LAMBDA it : it.id # id)
  /\ uploadResultsRef' = SelectSeq(uploadResultsRef, LAMBDA res : res.itemId # id)
  /\ UNCHANGED <<storeVars, now, uploadVars, invoiceNumberProp, formData, loading, sub,
                 toast, used>>

handleChange(name, value) ==
  LET processedValue == IF name = "accNumber" THEN FormatAccNumber(value)
                        ELSE IF name = "creditNumber" THEN FormatDigits(value)
                        ELSE value
  IN  /\ formData' = [formData EXCEPT ![name] = processedValue]
      /\ invoiceNumberProp' = IF name = "creditNumber" THEN processedValue
                              ELSE invoiceNumberProp
      /\ UNCHANGED <<storeVars, now, uploadVars, gallery, uploadResultsRef, loading, sub,
                     toast, used>>

\* handleSubmit's checks of the entered values: the message shown, "" if none
\* mutant of SubmitRejection: nothing is checked at submit
SubmitRejectionChecksNothing(fd, isDamages, isOverstock) == ""

SubmitRejection(fd, isDamages, isOverstock) ==
  LET rNumberValidation == validateRNumber(fd.rNumber, isOverstock)
      accNumberValidation == validateAccountNumber(fd.accNumber, isOverstock \/ isDamages)
      invoiceValidation == validateInvoiceNumber(fd.creditNumber, TRUE)
      reasonValidation == sanitizeTextInput(fd.reason, MAX_INPUT_LENGTH)
  IN  IF ~isDamages /\ ~rNumberValidation.valid THEN rNumberValidation.error
      ELSE IF ~accNumberValidation.valid THEN accNumberValidation.error
      ELSE IF (isOverstock \/ isDamages) /\ fd.creditNumber = <<>>
           THEN "Please enter an invoice number (Credit Number)"
      ELSE IF (isOverstock \/ isDamages) /\ ~invoiceValidation.valid
           THEN invoiceValidation.error
      ELSE IF fd.reason # <<>> /\ ~reasonValidation.valid THEN reasonValidation.error
      ELSE ""

SuccessIds(results) ==
  {results[i].itemId : i \in {j \in 1..Len(results) : results[j].error = Null}}

\* handleSubmit once onUploadAllUnuploaded has returned its results: it stops
\* without a successful upload, and calls insertDamagesData otherwise
Proceed(fd, finalUploadResults) ==
  IF Len(SuccessfulUrls(finalUploadResults)) = 0
  THEN /\ toast' = "Please capture at least one image before submitting"
       /\ loading' = FALSE
       /\ sub' = IdleSubmit
  ELSE /\ toast' = toast
       /\ loading' = TRUE
       /\ sub' = [pc |-> "reconciling", formData |-> fd,
                  currentUploadResults |-> <<>>,
                  finalUploadResults |-> finalUploadResults]

\* the catch block of handleSubmit
\* mutant of SubmissionFailed: the catch block returns without setLoading(false)
SubmissionFailedKeepsLoading ==
  /\ toast' = "Error submitting data:"
  /\ gallery' = handleUnmarkUploaded(gallery, SuccessIds(sub.finalUploadResults))
  /\ loading' = loading
  /\ sub' = IdleSubmit
  /\ UNCHANGED <<uploadResultsRef, invoiceNumberProp, formData, used>>

SubmissionFailed ==
  /\ toast' = "Error submitting data:"
  /\ gallery' = handleUnmarkUploaded(gallery, SuccessIds(sub.finalUploadResults))
  /\ loading' = FALSE
  /\ sub' = IdleSubmit
  /\ UNCHANGED <<uploadResultsRef, invoiceNumberProp, formData, used>>

\* mutant of SubmissionSucceeded: the form is reset, the queue is kept
SubmissionSucceededKeepsQueue ==
  /\ toast' = "Damages data submitted successfully!"
  /\ formData' = EmptyForm
  /\ loading' = FALSE
  /\ sub' = IdleSubmit
  /\ UNCHANGED <<gallery, uploadResultsRef, invoiceNumberProp, used>>

\* the form is reset and clearGallery empties the queue and the results
SubmissionSucceeded ==
  /\ toast' = "Damages data submitted successfully!"
  /\ formData' = EmptyForm
  /\ gallery' = <<>>
  /\ uploadResultsRef' = <<>>
  /\ loading' = FALSE
  /\ sub' = IdleSubmit
  /\ UNCHANGED <<invoiceNumberProp, used>>

\* the submit button: the checks, then uploadAllUnuploaded up to its call of
\* uploadGalleryItems; fetched says whether the placeholder's asset arrives
handleSubmit(fetched) ==
  /\ ~loading /\ sub.pc = "idle"
  /\ used.submits < MaxSubmits
  /\ IF SubmitRejection(formData, TRUE, FALSE) # ""
     THEN /\ toast' = SubmitRejection(formData, TRUE, FALSE)
          /\ UNCHANGED <<gallery, uploadResultsRef, invoiceNumberProp, formData, loading,
                         sub, used, upl>>
     ELSE LET currentGallery == gallery
              currentUploadResults == uploadResultsRef
              unuploadedItems == SelectSeq(currentGallery, LAMBDA item : ~item.uploaded)
              itemsWithBlobs ==
                [i \in 1..Len(unuploadedItems) |->
                   IF unuploadedItems[i].assetUrl /\ unuploadedItems[i].blob.size = 0
                      /\ fetched
                   THEN [unuploadedItems[i] EXCEPT !.blob = PngBlob]
                   ELSE unuploadedItems[i]]
              itemsWithInvoice ==
                [i \in 1..Len(itemsWithBlobs) |->
                   IF invoiceNumberProp # <<>>
                   THEN [itemsWithBlobs[i] EXCEPT !.invoiceNumber = Some(invoiceNumberProp)]
                   ELSE itemsWithBlobs[i]]
          IN  /\ used' = [used EXCEPT !.submits = @ + 1]
              /\ UNCHANGED <<uploadResultsRef, invoiceNumberProp, formData>>
              /\ IF Len(unuploadedItems) = 0
                 THEN /\ Proceed(formData, currentUploadResults)
                      /\ UNCHANGED <<gallery, upl>>
                 ELSE /\ gallery' = handleSetUploading(
                                      gallery,
                                      {unuploadedItems[i].id : i \in 1..Len(unuploadedItems)},
                                      TRUE)
                      /\ upl' = StartBatch(itemsWithInvoice)
                      /\ loading' = TRUE
                      /\ toast' = toast
                      /\ sub' = [pc |-> "uploading", formData |-> formData,
                                 currentUploadResults |-> currentUploadResults,
                                 finalUploadResults |-> uploadResultsRef]
  /\ UNCHANGED <<storeVars, now, storage>>

\* an item of the submission's batch is uploaded; after the last one
\* uploadAllUnuploaded marks the successes, combines the results and returns
ItemUploaded(dt) ==
  /\ sub.pc = "uploading"
  /\ UploadNext(dt)
  /\ IF upl'.pc = "returned"
     THEN LET allResults == sub.currentUploadResults \o upl'.results
          IN  /\ gallery' = MarkAll(gallery, upl'.results)
              /\ uploadResultsRef' = allResults
              /\ Proceed(sub.formData, allResults)
              /\ UNCHANGED <<invoiceNumberProp, formData, used>>
     ELSE UNCHANGED formVars
  /\ UNCHANGED storeVars

\* insertDamagesData is called and its lookup answered
LookupAnswered ==
  /\ sub.pc = "reconciling"
  /\ insertDamagesData(DamagesPage, sub.formData.creditNumber, sub.formData.accNumber,
                       sub.finalUploadResults, sub.formData.reason)
  /\ IF calls'[DamagesPage].pc = "thrown" THEN SubmissionFailed
     ELSE /\ sub' = [sub EXCEPT !.pc = "writing"]
          /\ UNCHANGED <<gallery, uploadResultsRef, invoiceNumberProp, formData, loading,
                         toast, used>>
  /\ UNCHANGED <<now, uploadVars>>

\* the write of insertDamagesData is answered, and handleSubmit ends
WriteAnswered ==
  /\ sub.pc = "writing"
  /\ UpdateExisting(DamagesPage) \/ InsertNew(DamagesPage)
  /\ IF calls'[DamagesPage].pc = "returned" THEN SubmissionSucceeded ELSE SubmissionFailed
  /\ UNCHANGED <<now, uploadVars>>

Init ==
  /\ rows = <<>>
  /\ calls = [c \in Clients |-> IdleCall]
  /\ now = 0
  /\ storage = {}
  /\ upl = NoBatch
  /\ NoForm

Next ==
  \/ \E blob \in {JpegBlob, HugeBlob} : handleCapture(blob) /\ UNCHANGED <<menu, scan>>
  \/ handleAddNotAuth /\ UNCHANGED <<menu, scan>>
  \/ \E id \in 1..MaxItems : handleRemove(id) /\ UNCHANGED <<menu, scan>>
  \/ \E name \in DOMAIN Typed : \E value \in Typed[name] :
       handleChange(name, value) /\ UNCHANGED <<menu, scan>>
  \/ \E fetched \in BOOLEAN : handleSubmit(fetched) /\ UNCHANGED <<menu, scan>>
  \/ \E dt \in {0, 1} : ItemUploaded(dt) /\ UNCHANGED <<menu, scan>>
  \/ LookupAnswered /\ UNCHANGED <<menu, scan>>
  \/ WriteAnswered /\ UNCHANGED <<menu, scan>>

Spec == Init /\ [][Next]_vars

(***************************************************************************)
(* handleSubmit on its own: any entered values, a queue of two items       *)
(***************************************************************************)
LongReason == [i \in 1..(MAX_INPUT_LENGTH + 1) |-> "x"]

\* values the fields can hold after handleChange: well-formed ones, an account
\* number and an invoice number cut short, and a reason over the length limit
EnteredForms ==
  [creditNumber : {<<"2", "1", "0", "0", "0", "0", "0", "1">>, <<"2", "1", "0">>, <<>>},
   rNumber : {<<>>},
   accNumber : {<<"A", "B", "C", "1", "2", "3">>, <<"A", "B", "1">>},
   reason : {<<>>, <<"x">>, LongReason}]

InitSubmit ==
  /\ rows = <<>>
  /\ calls = [c \in Clients |-> IdleCall]
  /\ now = 0
  /\ storage = {}
  /\ upl = NoBatch
  /\ gallery = <<[GalleryItem(2, NotAuthIsbn, EmptyBlob) EXCEPT !.assetUrl = TRUE],
                 GalleryItem(1, Isbn, JpegBlob)>>
  /\ uploadResultsRef = <<>>
  /\ formData \in EnteredForms
  /\ invoiceNumberProp = formData.creditNumber
  /\ loading = FALSE
  /\ sub = IdleSubmit
  /\ toast = ""
  /\ used = [captures |-> 2, submits |-> 0]
  /\ menu = NoMenu
  /\ scan = NoScan

NextSubmit ==
  \/ \E fetched \in BOOLEAN : handleSubmit(fetched) /\ UNCHANGED <<menu, scan>>
  \/ \E dt \in {0, 1} : ItemUploaded(dt) /\ UNCHANGED <<menu, scan>>
  \/ LookupAnswered /\ UNCHANGED <<menu, scan>>
  \/ WriteAnswered /\ UNCHANGED <<menu, scan>>

SpecSubmit == InitSubmit /\ [][NextSubmit]_vars

\* Every storage put and every store call of a submission is answered: the
\* awaited calls of handleSubmit return.  This is weak fairness of the three
\* answering steps.  For the put and the lookup it is written out as
\* "infinitely often not enabled, or infinitely often taken", the step being
\* enabled exactly when the submission waits for it.
PutReturns ==
  \/ []<>(sub.pc # "uploading")
  \/ []<><<\E dt \in {0, 1} : ItemUploaded(dt) /\ UNCHANGED <<menu, scan>>>>_vars

LookupReturns ==
  \/ []<>(sub.pc # "reconciling")
  \/ []<><<LookupAnswered /\ UNCHANGED <<menu, scan>>>>_vars

WriteReturns == WF_vars(WriteAnswered /\ UNCHANGED <<menu, scan>>)

CallsReturn == PutReturns /\ LookupReturns /\ WriteReturns

SpecLive == SpecSubmit /\ CallsReturn

(***************************************************************************)
(* updateSalesData: later edits of notes, team, status and action          *)
(***************************************************************************)
TeamMaxLength == 100

StatusMaxLength == 50

ActionMaxLength == 50

\* an updates argument or a payload: a field that is not supplied is Null, a
\* supplied note is Some(text), a supplied team, status or action is Some(Null)
\* for null and Some(Some(text)) for a text
NoUpdates ==
  [sales_notes |-> Null, warehouse_notes |-> Null, team |-> Null, status |-> Null,
   action |-> Null]

UpdateFields == DOMAIN NoUpdates

\* (value || "") for a text or null
TextOrEmpty(v) == IF v = Null THEN <<>> ELSE v[1]

\* (text || null)
TextOrNull(t) == IF t = <<>> THEN Null ELSE Some(t)

\* the sanitized value of each supplied field
SanitizedUpdates(updates) ==
  [sales_notes |-> sanitizeTextInput(TextOrEmpty(updates.sales_notes), MAX_INPUT_LENGTH),
   warehouse_notes |-> sanitizeTextInput(TextOrEmpty(updates.warehouse_notes), MAX_INPUT_LENGTH),
   team |-> sanitizeTextInput(TextOrEmpty(TextOrEmpty(updates.team)), TeamMaxLength),
   status |-> sanitizeTextInput(TextOrEmpty(TextOrEmpty(updates.status)), StatusMaxLength),
   action |-> sanitizeTextInput(TextOrEmpty(TextOrEmpty(updates.action)), ActionMaxLength)]

\* the payload is built only with the fields explicitly provided
UpdatePayload(updates) ==
  LET sanitized == SanitizedUpdates(updates)
  IN  [f \in UpdateFields |->
         IF updates[f] = Null THEN Null
         ELSE IF f \in {"sales_notes", "warehouse_notes"} THEN Some(sanitized[f].sanitized)
         ELSE Some(TextOrNull(sanitized[f].sanitized))]

\* the fields are checked in this order; the first invalid one throws
UpdateFieldOrder == <<"sales_notes", "warehouse_notes", "team", "status", "action">>

FirstInvalid(updates) ==
  LET sanitized == SanitizedUpdates(updates)
      bad == SelectSeq(UpdateFieldOrder,
                       LAMBDA f : updates[f] # Null /\ ~sanitized[f].valid)
  IN  IF bad = <<>> THEN Null ELSE Some(sanitized[bad[1]].error)

IdleUpdate == [pc |-> "idle", invoiceNum |-> 0, payload |-> NoUpdates, error |-> "", updatedRows |-> 0]

\* mutant of StoreUpdate: a field that is not in the payload is written as null
StoreUpdateNullsMissing(table, invoiceNum, payload) ==
  LET hit(i) == table[i].InvoiceNumber = invoiceNum
      after == [i \in 1..Len(table) |->
                  IF ~hit(i) THEN table[i]
                  ELSE [table[i] EXCEPT
                          !.sales_notes = TextOrEmpty(payload.sales_notes),
                          !.warehouse_notes = TextOrEmpty(payload.warehouse_notes),
                          !.team = TextOrEmpty(payload.team),
                          !.status = TextOrEmpty(payload.status),
                          !.action = TextOrEmpty(payload.action)]]
  IN  [table |-> after, data |-> RowsOf(after, invoiceNum)]

\* .update(payload).eq("InvoiceNumber", n).select(): the columns named in the
\* payload are written in every matching row and the written rows come back;
\* an empty payload writes nothing and nothing comes back
StoreUpdate(table, invoiceNum, payload) ==
  LET hit(i) == table[i].InvoiceNumber = invoiceNum
      after == [i \in 1..Len(table) |->
                  IF ~hit(i) THEN table[i]
                  ELSE [table[i] EXCEPT
                          !.sales_notes = IF payload.sales_notes = Null THEN @
                                          ELSE payload.sales_notes[1],
                          !.warehouse_notes = IF payload.warehouse_notes = Null THEN @
                                              ELSE payload.warehouse_notes[1],
                          !.team = IF payload.team = Null THEN @ ELSE payload.team[1],
                          !.status = IF payload.status = Null THEN @ ELSE payload.status[1],
                          !.action = IF payload.action = Null THEN @ ELSE payload.action[1]]]
  IN  IF payload = NoUpdates THEN [table |-> table, data |-> <<>>]
      ELSE [table |-> after, data |-> RowsOf(after, invoiceNum)]

SalesUpdateErrorMessage(code) ==
  IF code = PermissionDenied THEN "You do not have permission to perform this action."
  ELSE "Failed to update data. Please try again."

\* the call up to the store request: the invoice number is converted, the
\* supplied fields are sanitized; the pages pass the invoice number as a text
UpdateCalled(call, invoiceNumber, updates) ==
  LET validation == validateNumericString(invoiceNumber)
      invalid == FirstInvalid(updates)
  IN  IF ~validation.valid
      THEN [IdleUpdate EXCEPT !.pc = "thrown", !.error = "Invoice number must be a valid number"]
      ELSE IF invalid # Null
      THEN [IdleUpdate EXCEPT !.pc = "thrown", !.invoiceNum = validation.number,
                              !.error = invalid[1]]
      ELSE [IdleUpdate EXCEPT !.pc = "updating", !.invoiceNum = validation.number,
                              !.payload = UpdatePayload(updates)]

\* the store's answer: an error, no row, or the written rows
UpdateReturned(call, answer, fault) ==
  IF fault # "none"
  THEN [IdleUpdate EXCEPT !.pc = "thrown", !.invoiceNum = call.invoiceNum,
                          !.error = SalesUpdateErrorMessage(fault)]
  ELSE IF Len(answer.data) = 0
  THEN [IdleUpdate EXCEPT !.pc = "thrown", !.invoiceNum = call.invoiceNum,
          !.error = "No matching record found or you do not have permission to update it."]
  ELSE [call EXCEPT !.pc = "returned", !.updatedRows = Len(answer.data)]

updateSalesData(c, invoiceNumber, updates) ==
  /\ calls[c].pc # "updating"
  /\ calls' = [calls EXCEPT ![c] = UpdateCalled(@, invoiceNumber, updates)]
  /\ UNCHANGED rows

UpdateAnswered(c) ==
  /\ calls[c].pc = "updating"
  /\ \E fault \in StoreFaults :
       LET answer == StoreUpdate(rows, calls[c].invoiceNum, calls[c].payload)
       IN  /\ rows' = IF fault = "none" THEN answer.table ELSE rows
           /\ calls' = [calls EXCEPT ![c] = UpdateReturned(@, answer, fault)]

\* a text over the length limit of status and action
LongWord == [i \in 1..(StatusMaxLength + 1) |-> "x"]

\* the updates of the calls: each field left out or supplied, a note with a
\* stripped character, a blank text, null, and a status that is too long
UpdateInputs ==
  [sales_notes : {Null, Some(<<"<", "n">>)},
   warehouse_notes : {Null, Some(<<"w">>)},
   team : {Null, Some(Null), Some(Some(TeamExport))},
   status : {Null, Some(Some(StatusCompleted)), Some(Some(LongWord))},
   action : {Null, Some(Some(<<" ">>)), Some(Some(ActionPulp))}]

\* a record logged by a first submission of a damages form, not yet assessed
LoggedNew == RowData(21000002, Null, <<"X", "Y", "Z", "7", "8", "9">>, <<"c">>, 0, <<>>)

UpdateInvoiceInputs ==
  {<<"2", "1", "0", "0", "0", "0", "0", "1">>, <<"2", "1", "0", "0", "0", "0", "0", "9">>,
   <<"x">>}

\* the pages' calls of updateSalesData come from one open page
UpdateCaller == 1

InitUpdateCall ==
  /\ rows = <<LoggedBefore, LoggedNew>>
  /\ calls = [c \in {UpdateCaller} |-> IdleUpdate]
  /\ now = 0
  /\ storage = {}
  /\ upl = NoBatch
  /\ NoForm

NextUpdateCall ==
  \/ \E invoiceNumber \in UpdateInvoiceInputs, updates \in UpdateInputs :
       updateSalesData(UpdateCaller, invoiceNumber, updates)
         /\ UNCHANGED <<now, uploadVars, formVars, menu, scan>>
  \/ UpdateAnswered(UpdateCaller) /\ UNCHANGED <<now, uploadVars, formVars, menu, scan>>

SpecUpdateCall == InitUpdateCall /\ [][NextUpdateCall]_vars

(***************************************************************************)
(* BarcodeReader: the ISBN-10 check of a candidate                         *)
(***************************************************************************)
\* /^\d{9}[\dX]$/.test(isbn10)
MatchesIsbn10(isbn10) ==
  /\ Len(isbn10) = 10
  /\ \A i \in 1..9 : isbn10[i] \in Digits
  /\ isbn10[10] \in Digits \cup {"X"}

RECURSIVE Isbn10Sum(_, _)
\* sum after the turns i .. 9 of the loop (i counts from 0)
Isbn10Sum(chars, i) ==
  IF i >= 10 THEN 0
  ELSE LET c == chars[i + 1]
           val == IF c = "X" THEN 10 ELSE DigitVal(c)
       IN  (10 - i) * val + Isbn10Sum(chars, i + 1)

\* mutant of isValidISBN10: "X" is parsed like a digit, which gives NaN
isValidISBN10NoX(isbn10) ==
  IF ~MatchesIsbn10(isbn10) THEN FALSE
  ELSE IF isbn10[10] = "X" THEN FALSE
  ELSE Isbn10Sum(isbn10, 0) % 11 = 0

isValidISBN10(isbn10) ==
  IF ~MatchesIsbn10(isbn10) THEN FALSE
  ELSE Isbn10Sum(isbn10, 0) % 11 = 0

\* candidates of ten characters: the first, the ninth and the tenth vary
Isbn10Inputs ==
  {<<c1, "3", "0", "6", "4", "0", "6", "1", c9, c10>> :
     c1 \in {"0", "1", "X"}, c9 \in Digits \cup {"X", " "}, c10 \in Digits \cup {"X", "x"}}

\* extractISBN's check of a candidate of length 10
CheckIsbn10 ==
  /\ scan.valid = Null
  /\ scan' = [scan EXCEPT !.valid = Some(isValidISBN10(scan.isbn10))]
  /\ UNCHANGED <<storeVars, now, uploadVars, formVars, menu>>

InitIsbn10 ==
  /\ rows = <<>>
  /\ calls = [c \in Clients |-> IdleCall]
  /\ now = 0
  /\ storage = {}
  /\ upl = NoBatch
  /\ gallery = <<>>
  /\ uploadResultsRef = <<>>
  /\ invoiceNumberProp = <<>>
  /\ formData = EmptyForm
  /\ loading = FALSE
  /\ sub = IdleSubmit
  /\ toast = ""
  /\ used = [captures |-> 0, submits |-> 0]
  /\ menu = NoMenu
  /\ \E isbn10 \in Isbn10Inputs : scan = [isbn10 |-> isbn10, valid |-> Null]

NextIsbn10 == CheckIsbn10

SpecIsbn10 == InitIsbn10 /\ [][NextIsbn10]_vars

\* /^\d{13}$/.test(isbn13)
MatchesIsbn13(isbn13) == Len(isbn13) = 13 /\ \A i \in 1..13 : isbn13[i] \in Digits

RECURSIVE Isbn13Sum(_, _)
\* sum after the turns i .. 12 of the loop (i counts from 0)
Isbn13Sum(chars, i) ==
  IF i >= 13 THEN 0
  ELSE DigitVal(chars[i + 1]) * (IF i % 2 = 0 THEN 1 ELSE 3) + Isbn13Sum(chars, i + 1)

\* mutant of isValidISBN13: weight 3 at the even indices, 1 at the odd ones
isValidISBN13Swapped(isbn13) ==
  IF ~MatchesIsbn13(isbn13) THEN FALSE
  ELSE (Isbn13Sum(<<"0">> \o SubSeq(isbn13, 1, 12), 0) + 3 * DigitVal(isbn13[13])) % 10 = 0

isValidISBN13(isbn13) ==
  IF ~MatchesIsbn13(isbn13) THEN FALSE
  ELSE Isbn13Sum(isbn13, 0) % 10 = 0

\* candidates of thirteen characters: the first, the twelfth and the last vary
Isbn13Inputs ==
  {<<c1, "7", "8", "0", "3", "0", "6", "4", "0", "6", "1", c12, c13>> :
     c1 \in {"9", "8", "X"}, c12 \in Digits \cup {"X", " "}, c13 \in Digits \cup {"X", "-"}}

\* everything but the reader is as the application starts
ReaderOnly ==
  /\ rows = <<>>
  /\ calls = [c \in Clients |-> IdleCall]
  /\ now = 0
  /\ storage = {}
  /\ upl = NoBatch
  /\ gallery = <<>>
  /\ uploadResultsRef = <<>>
  /\ invoiceNumberProp = <<>>
  /\ formData = EmptyForm
  /\ loading = FALSE
  /\ sub = IdleSubmit
  /\ toast = ""
  /\ used = [captures |-> 0, submits |-> 0]
  /\ menu = NoMenu

\* extractISBN's check of a candidate of length 13
CheckIsbn13 ==
  /\ scan.valid = Null
  /\ scan' = [scan EXCEPT !.valid = Some(isValidISBN13(scan.isbn13))]
  /\ UNCHANGED <<storeVars, now, uploadVars, formVars, menu>>

InitIsbn13 ==
  /\ ReaderOnly
  /\ \E isbn13 \in Isbn13Inputs : scan = [isbn13 |-> isbn13, valid |-> Null]

NextIsbn13 == CheckIsbn13

SpecIsbn13 == InitIsbn13 /\ [][NextIsbn13]_vars

\* the character class [\dXx\- ]
CandidateChars == Digits \cup {"X", "x", "-", " "}

\* the length of the run of class characters that starts at position p
RunLength(text, p) ==
  LET stops == {q \in p..Len(text) : text[q] \notin CandidateChars}
  IN  IF stops = {} THEN Len(text) - p + 1
      ELSE (CHOOSE q \in stops : \A r \in stops : q <= r) - p

RECURSIVE Candidates(_, _)
\* text.match(/[\dXx\- ]{10,17}/g) from position p on: leftmost matches, each
\* as long as it can be up to 17, not overlapping
Candidates(text, p) ==
  IF p > Len(text) THEN <<>>
  ELSE LET run == RunLength(text, p)
           n == IF run > 17 THEN 17 ELSE run
       IN  IF run >= 10 THEN <<SubSeq(text, p, p + n - 1)>> \o Candidates(text, p + n)
           ELSE Candidates(text, p + 1)

\* cand.replace(/[\s\-]/g, "").toUpperCase()
Normalized(cand) == ToUpperCase(RemoveChars(cand, WhiteSpace \cup {"-"}))

IsIsbn(norm) ==
  \/ Len(norm) = 13 /\ isValidISBN13(norm)
  \/ Len(norm) = 10 /\ isValidISBN10(norm)

\* mutant of FirstIsbn: the candidate is returned as it was matched
FirstIsbnAsMatched(candidates) ==
  LET hits == SelectSeq(candidates, LAMBDA cand : IsIsbn(Normalized(cand)))
  IN  IF hits = <<>> THEN Null ELSE Some(hits[1])

\* the loop over the candidates: the first one whose normal form passes
FirstIsbn(candidates) ==
  LET hits == SelectSeq(candidates, LAMBDA cand : IsIsbn(Normalized(cand)))
  IN  IF hits = <<>> THEN Null ELSE Some(Normalized(hits[1]))

extractISBN(text) == IF text = <<>> THEN Null ELSE FirstIsbn(Candidates(text, 1))

\* decoded texts: something before, a code or none, something after
DecodedTexts ==
  {before \o code \o after :
     before \in {<<>>, <<"f", "o", "o", " ">>, <<"I", "S", "B", "N", ":">>},
     code \in {<<>>, <<"9", "7", "8", "0", "3", "0", "6", "4", "0", "6", "1", "5", "7">>, <<"9", "7", "8", "-", "0", "-", "3", "0", "6", "-", "4", "0", "6", "1", "5", "-", "7">>, <<"9", "7", "8", "0", "3", "0", "6", "4", "0", "6", "1", "5", "8">>, <<"0", "3", "0", "6", "4", "0", "6", "1", "5", "2">>,
               <<"0", "-", "3", "0", "6", "-", "4", "0", "6", "1", "1", "-", "x">>, <<"0", "3", "0", "6", "4", "0", "6", "1", "5", "1">>, <<"1", "2", "3", "4", "5">>,
               <<"9", "7", "8", "0", "3", "0", "6", "4", "0", "6", "1", "5", "7", "0", "3", "0", "6", "4", "0", "6", "1", "5", "2">>, <<"n", "o", " ", "c", "o", "d", "e", " ", "h", "e", "r", "e">>},
     after \in {<<>>, <<" ", "b", "a", "r">>, <<" ", "0", "3", "0", "6", "4", "0", "6", "1", "5", "2">>, <<"x", "9", "7", "8", "0", "3", "0", "6", "4", "0", "6", "1", "5", "7">>}}

\* the scanner's success callback: extractISBN(decodedText), setDetectedIsbn
onScanSuccess ==
  /\ ~scan.decoded
  /\ scan' = [scan EXCEPT !.decoded = TRUE, !.detectedIsbn = extractISBN(scan.decodedText)]
  /\ UNCHANGED <<storeVars, now, uploadVars, formVars, menu>>

InitExtract ==
  /\ ReaderOnly
  /\ \E text \in DecodedTexts : scan = [decodedText |-> text, decoded |-> FALSE, detectedIsbn |-> Null]

NextExtract == onScanSuccess

SpecExtract == InitExtract /\ [][NextExtract]_vars

(***************************************************************************)
(* The menu page: ListComponent, ItemDetailsPanel and the page's handlers  *)
(***************************************************************************)
MaxUpdates == 2

RECURSIVE NumberToString(_)
\* String(n) of a non-negative integer
NumberToString(n) ==
  LET digit(v) == CHOOSE d \in Digits : DigitVal(d) = v
  IN  IF n < 10 THEN <<digit(n)>> ELSE Append(NumberToString(n \div 10), digit(n % 10))

\* the page's calls of updateSalesData
MenuCaller == 1

\* String(el.status || "").trim().toLowerCase() === "completed"
IsCompleted(el) == ToLowerCase(Trim(TextOrEmpty(el.status))) = ToLowerCase(StatusCompleted)

\* the rows the list shows: the completed ones only, or all but those
Listed(dataList, showOnlyCompleted) ==
  SelectSeq(dataList, LAMBDA el : IsCompleted(el) <=> showOnlyCompleted)

\* ListComponent's fetchRows, when the list mounts or is refreshed
fetchRows ==
  /\ menu.fetching
  /\ menu' = [menu EXCEPT !.dataList = rows, !.fetching = FALSE]
  /\ UNCHANGED <<rows, calls, toast>>

Deselected(m) ==
  [m EXCEPT !.invoiceNumber = <<>>, !.warehouse_notes = <<>>, !.sales_notes = <<>>,
            !.allocated = <<>>, !.action = <<>>, !.status = StatusCompleted]

\* the fields are set from the item of the list
handleSelect(k) ==
  LET shown == Listed(menu.dataList, menu.showOnlyCompleted)
  IN  /\ k \in 1..Len(shown)
      /\ menu' = [menu EXCEPT !.invoiceNumber = NumberToString(shown[k].InvoiceNumber),
                              !.warehouse_notes = shown[k].warehouse_notes,
                              !.sales_notes = shown[k].sales_notes,
                              !.allocated = TextOrEmpty(shown[k].team),
                              !.action = TextOrEmpty(shown[k].action),
                              !.status = OrElse(TextOrEmpty(shown[k].status), StatusCompleted)]
      /\ UNCHANGED <<rows, calls, toast>>

handleBack ==
  /\ menu.invoiceNumber # <<>>
  /\ menu' = Deselected(menu)
  /\ UNCHANGED <<rows, calls, toast>>

\* the panel is shown for a selected item only
onInvoiceNumberChange(value) ==
  /\ menu.invoiceNumber # <<>>
  /\ menu' = [menu EXCEPT !.invoiceNumber = value]
  /\ UNCHANGED <<rows, calls, toast>>

handleTeamChange(value) ==
  /\ menu.invoiceNumber # <<>>
  /\ menu' = [menu EXCEPT !.allocated = value]
  /\ UNCHANGED <<rows, calls, toast>>

handleActionChange(value) ==
  /\ menu.invoiceNumber # <<>>
  /\ menu' = [menu EXCEPT !.action = value]
  /\ UNCHANGED <<rows, calls, toast>>

\* mutant of StatusChangeRejection: the panel never asks for team and action
StatusChangeAlwaysAllowed(m, value) == ""

\* the panel's check before it passes a status on to the page
StatusChangeRejection(m, value) ==
  IF m.requireTeamAndActionForCompleted /\ value = StatusCompleted
  THEN IF m.allocated = <<>> \/ Trim(m.allocated) = <<>>
       THEN "Please assign a team before marking as Completed"
       ELSE IF m.action = <<>> \/ Trim(m.action) = <<>>
       THEN "Please select an action before marking as Completed"
       ELSE ""
  ELSE ""

\* the panel's handleStatusChange and, through onStatusChange, the page's
handleStatusChange(value) ==
  /\ menu.invoiceNumber # <<>>
  /\ LET rejection == StatusChangeRejection(menu, value)
     IN  IF rejection # ""
         THEN /\ toast' = rejection
              /\ UNCHANGED menu
         ELSE /\ menu' = [menu EXCEPT !.status = value]
              /\ UNCHANGED toast
  /\ UNCHANGED <<rows, calls>>

\* the page's handleUpdate up to the request of updateSalesData
handleUpdate ==
  /\ menu.invoiceNumber # <<>>
  /\ ~menu.loading
  /\ menu.updates < MaxUpdates
  /\ LET call == UpdateCalled(calls[MenuCaller], menu.invoiceNumber,
                              [warehouse_notes |-> Some(menu.warehouse_notes),
                               sales_notes |-> Some(menu.sales_notes),
                               team |-> Some(TextOrNull(menu.allocated)),
                               action |-> Some(TextOrNull(menu.action)),
                               status |-> Some(TextOrNull(menu.status))])
     IN  /\ calls' = [calls EXCEPT ![MenuCaller] = call]
         /\ IF call.pc = "thrown"
            THEN /\ toast' = "Error updating notes:"
                 /\ menu' = [menu EXCEPT !.updates = @ + 1]
            ELSE /\ menu' = [menu EXCEPT !.loading = TRUE, !.pc = "updating", !.updates = @ + 1]
                 /\ UNCHANGED toast
  /\ UNCHANGED rows

\* updateSalesData's answer: on an error the catch block, else the record is read back
UpdateWritten ==
  /\ menu.pc = "updating"
  /\ UpdateAnswered(MenuCaller)
  /\ IF calls'[MenuCaller].pc = "thrown"
     THEN /\ toast' = "Error updating notes:"
          /\ menu' = [menu EXCEPT !.loading = FALSE, !.pc = "idle"]
     ELSE /\ menu' = [menu EXCEPT !.pc = "reading"]
          /\ UNCHANGED toast

\* the record read back: the list is refreshed and the selection dropped
UpdateReadBack ==
  /\ menu.pc = "reading"
  /\ \E fault \in StoreFaults :
       IF fault # "none" \/ Len(RowsOf(rows, calls[MenuCaller].invoiceNum)) # 1
       THEN /\ toast' = "Error updating notes:"
            /\ menu' = [menu EXCEPT !.loading = FALSE, !.pc = "idle"]
       ELSE /\ toast' = "Updated successfully!"
            /\ menu' = [Deselected(menu) EXCEPT !.loading = FALSE, !.pc = "idle",
                                                !.dataList = <<>>, !.fetching = TRUE]
  /\ UNCHANGED <<rows, calls>>

\* a page over the two records; its props are the caller's
InitMenu ==
  /\ rows = <<LoggedBefore, LoggedNew>>
  /\ calls = [c \in {MenuCaller} |-> IdleUpdate]
  /\ now = 0
  /\ storage = {}
  /\ upl = NoBatch
  /\ gallery = <<>>
  /\ uploadResultsRef = <<>>
  /\ invoiceNumberProp = <<>>
  /\ formData = EmptyForm
  /\ loading = FALSE
  /\ sub = IdleSubmit
  /\ toast = ""
  /\ used = [captures |-> 0, submits |-> 0]
  /\ \E requireTeamAndActionForCompleted \in BOOLEAN, showOnlyCompleted \in BOOLEAN :
       menu = MenuState(requireTeamAndActionForCompleted, showOnlyCompleted)
  /\ scan = NoScan

menuFrame ==
  <<now, uploadVars, gallery, uploadResultsRef, invoiceNumberProp, formData, loading, sub, used, scan>>

NextMenu ==
  \/ fetchRows /\ UNCHANGED menuFrame
  \/ \E k \in 1..2 : handleSelect(k) /\ UNCHANGED menuFrame
  \/ handleBack /\ UNCHANGED menuFrame
  \/ \E value \in {NumberToString(LoggedNew.InvoiceNumber)} :
       onInvoiceNumberChange(value) /\ UNCHANGED menuFrame
  \/ \E value \in {TeamExport} : handleTeamChange(value) /\ UNCHANGED menuFrame
  \/ \E value \in {ActionCredit} : handleActionChange(value) /\ UNCHANGED menuFrame
  \/ \E value \in {StatusLogged, StatusAssessed, StatusCompleted} :
       handleStatusChange(value) /\ UNCHANGED menuFrame
  \/ handleUpdate /\ UNCHANGED menuFrame
  \/ UpdateWritten /\ UNCHANGED menuFrame
  \/ UpdateReadBack /\ UNCHANGED menuFrame

SpecMenu == InitMenu /\ [][NextMenu]_vars

(***************************************************************************)
(* The strict field validators on their own: any entered text              *)
(***************************************************************************)
\* texts around a well-formed invoice number: padded, cut, extended, and with
\* a character that is no digit in the middle
InvoiceTexts ==
  {p \o <<"2", "1", "0", "0">> \o m \o <<"0", "0", "0">> \o e :
     p \in {<<>>, <<" ">>},
     m \in {<<>>, <<"-">>, <<"0">>, <<"a">>},
     e \in {<<"1">>, <<>>, <<"1", " ">>, <<"1", "2">>}}

\* texts around a well-formed account number
AccountTexts ==
  {p \o <<c1, "B", "C", "1", "2", c6>> \o e :
     p \in {<<>>, <<" ">>},
     c1 \in {"A", "a", "1", "-"},
     c6 \in {"3", "X", "x"},
     e \in {<<>>, <<"4">>, <<" ">>}}

\* handleSubmit's validateInvoiceNumber(formData.creditNumber, true)
ValidateInvoice ==
  /\ scan.field = "creditNumber" /\ scan.result = Null
  /\ scan' = [scan EXCEPT !.result = Some(validateInvoiceNumber(scan.text, TRUE))]
  /\ UNCHANGED <<storeVars, now, uploadVars, formVars, menu>>

\* handleSubmit's validateAccountNumber(formData.accNumber, isOverstock || isDamages)
ValidateAccount ==
  /\ scan.field = "accNumber" /\ scan.result = Null
  /\ scan' = [scan EXCEPT !.result = Some(validateAccountNumber(scan.text, TRUE))]
  /\ UNCHANGED <<storeVars, now, uploadVars, formVars, menu>>

InitValidate ==
  /\ ReaderOnly
  /\ \/ \E text \in InvoiceTexts : scan = [field |-> "creditNumber", text |-> text, result |-> Null]
     \/ \E text \in AccountTexts : scan = [field |-> "accNumber", text |-> text, result |-> Null]

NextValidate == ValidateInvoice \/ ValidateAccount

SpecValidate == InitValidate /\ [][NextValidate]_vars

(***************************************************************************)
(* The upload gate on its own: one item, any first bytes, type and size    *)
(***************************************************************************)
\* first four bytes of files: the four signatures, and each with one byte off
FirstFour ==
  {<<255, 216, 255, 224>>, <<255, 217, 255, 224>>, <<254, 216, 255, 224>>,
   <<137, 80, 78, 71>>, <<137, 80, 78, 72>>, <<137, 80, 79, 71>>,
   <<71, 73, 70, 56>>, <<71, 73, 71, 56>>,
   <<82, 73, 70, 70>>, <<82, 73, 70, 71>>, <<82, 73, 71, 70>>,
   <<60, 104, 116, 109>>}

\* blobs of fewer than four bytes hold a prefix of those; a blob of four bytes
\* or more has any size up to one byte over the ceiling
GateBlobs ==
  {[size |-> n, type |-> type, head |-> SubSeq(h, 1, n)] :
     h \in FirstFour, n \in 0..3, type \in {IMAGE_JPEG, IMAGE_PNG, TEXT_HTML, <<>>}}
  \cup
  {[size |-> size, type |-> type, head |-> h] :
     h \in FirstFour, size \in {4, MAX_FILE_SIZE, MAX_FILE_SIZE + 1},
     type \in {IMAGE_JPEG, IMAGE_PNG, TEXT_HTML, <<>>}}

\* the content check of the item's blob, as uploadGalleryItem awaits it
CheckContent ==
  /\ scan.contentValidation = Null
  /\ scan' = [scan EXCEPT !.contentValidation = Some(validateImageContent(scan.blob))]
  /\ UNCHANGED <<storeVars, now, uploadVars, formVars, menu>>

InitGate ==
  /\ rows = <<>>
  /\ calls = [c \in Clients |-> IdleCall]
  /\ now = 0
  /\ storage = {}
  /\ gallery = <<>>
  /\ uploadResultsRef = <<>>
  /\ invoiceNumberProp = <<>>
  /\ formData = EmptyForm
  /\ loading = FALSE
  /\ sub = IdleSubmit
  /\ toast = ""
  /\ used = [captures |-> 0, submits |-> 0]
  /\ menu = NoMenu
  /\ \E blob \in GateBlobs :
       /\ upl = StartBatch(<<GalleryItem(1, Isbn, blob)>>)
       /\ scan = [blob |-> blob, contentValidation |-> Null]

NextGate ==
  \/ \E dt \in {0, 1} : UploadNext(dt) /\ UNCHANGED <<storeVars, formVars, menu, scan>>
  \/ CheckContent

SpecGate == InitGate /\ [][NextGate]_vars

(***************************************************************************)
(* BarcodeReader: taking the photo of a detected book                      *)
(***************************************************************************)
\* what canvas.toBlob hands to its callback: a JPEG, or null when the encoder
\* yields no data
Encoded == {Null, Some(JpegBlob), Some(HugeBlob)}

\* the reader after a code was detected: no error, the capture view closed, no
\* callback outstanding
ReaderReady ==
  [detectedIsbn |-> Some(Isbn), error |-> Null, captureOpen |-> FALSE, pending |-> "none"]

\* startCapture on a desktop: the video stream opens the capture view, or
\* getUserMedia fails
startCapture(started) ==
  /\ scan.pending = "none" /\ ~scan.captureOpen
  /\ scan' = IF started THEN [scan EXCEPT !.captureOpen = TRUE]
             ELSE [scan EXCEPT !.error = Some("Failed to start camera")]
  /\ UNCHANGED <<storeVars, now, uploadVars, formVars, menu>>

\* capturePhoto: the frame is drawn and toBlob is called; its callback is
\* outstanding
capturePhoto ==
  /\ scan.captureOpen /\ scan.pending = "none" /\ scan.detectedIsbn # Null
  /\ used.captures < MaxItems
  /\ scan' = [scan EXCEPT !.pending = "toBlob"]
  /\ UNCHANGED <<storeVars, now, uploadVars, formVars, menu>>

\* the callback of capturePhoto's toBlob: if (!blob) return; otherwise
\* onCapture and closeCapture
PhotoEncoded(blob) ==
  /\ scan.pending = "toBlob"
  /\ IF blob = Null
     THEN /\ scan' = [scan EXCEPT !.pending = "none"]
          /\ UNCHANGED <<storeVars, now, uploadVars, formVars>>
     ELSE /\ handleCapture(blob[1])
          /\ scan' = [scan EXCEPT !.pending = "none", !.captureOpen = FALSE]
  /\ UNCHANGED menu

\* handleFileSelect with a file from the native camera: the image is created
\* and its load is outstanding
handleFileSelect ==
  /\ scan.pending = "none" /\ ~scan.captureOpen /\ scan.detectedIsbn # Null
  /\ used.captures < MaxItems
  /\ scan' = [scan EXCEPT !.pending = "load"]
  /\ UNCHANGED <<storeVars, now, uploadVars, formVars, menu>>

\* img.onload: the square is drawn and toBlob is called
ImageLoaded ==
  /\ scan.pending = "load"
  /\ scan' = [scan EXCEPT !.pending = "fileToBlob"]
  /\ UNCHANGED <<storeVars, now, uploadVars, formVars, menu>>

\* img.onerror: the file does not decode
ImageFailed ==
  /\ scan.pending = "load"
  /\ scan' = [scan EXCEPT !.pending = "none", !.error = Some("Failed to load image")]
  /\ UNCHANGED <<storeVars, now, uploadVars, formVars, menu>>

\* the callback of handleFileSelect's toBlob: if (!blob) { ...; return; }
\* otherwise onCapture
FileEncoded(blob) ==
  /\ scan.pending = "fileToBlob"
  /\ scan' = [scan EXCEPT !.pending = "none"]
  /\ IF blob = Null THEN UNCHANGED <<storeVars, now, uploadVars, formVars>>
     ELSE handleCapture(blob[1])
  /\ UNCHANGED menu

\* startScanner: setError(null), then "No camera selected" without a camera
startScanner(cameraSelected) ==
  /\ scan.pending = "none" /\ ~scan.captureOpen
  /\ scan' = [scan EXCEPT !.error = IF cameraSelected THEN Null
                                    ELSE Some("No camera selected")]
  /\ UNCHANGED <<storeVars, now, uploadVars, formVars, menu>>

InitCapture == ReaderOnly /\ scan = ReaderReady

NextCapture ==
  \/ \E started \in BOOLEAN : startCapture(started)
  \/ capturePhoto
  \/ \E blob \in Encoded : PhotoEncoded(blob)
  \/ handleFileSelect
  \/ ImageLoaded
  \/ ImageFailed
  \/ \E blob \in Encoded : FileEncoded(blob)
  \/ \E cameraSelected \in BOOLEAN : startScanner(cameraSelected)
  \/ \E id \in 1..MaxItems : handleRemove(id) /\ UNCHANGED <<menu, scan>>

SpecCapture == InitCapture /\ [][NextCapture]_vars

(***************************************************************************)
(* Properties of the record reconciler (SpecReconcile)                     *)
(***************************************************************************)
\* the step in which client c's merge write is applied and answered
MergeWrites(c) == calls[c].pc = "update" /\ calls'[c].pc = "returned"

RecordsOf(invoiceNum) == {i \in 1..Len(rows) : rows[i].InvoiceNumber = invoiceNum}

\* C1: when two reconciliations for the same invoice number have both returned
\* success, the stored record's images contain every reference of both calls
C1_NoLostUpdate ==
  \A c1, c2 \in Clients :
    (/\ c1 # c2
     /\ calls[c1].pc = "returned" /\ calls[c2].pc = "returned"
     /\ calls[c1].invoiceNum = calls[c2].invoiceNum)
    => \A u \in Range(calls[c1].imageUrls) \cup Range(calls[c2].imageUrls) :
         \E i \in RecordsOf(calls[c1].invoiceNum) : u \in Range(rows[i].images)

\* C2: in every reachable state of the store, whatever the reference lists of
\* the submissions were, no record's images hold the same reference twice
C2_NoDuplicateImages == \A i \in 1..Len(rows) : NoDup(rows[i].images)

\* the positions of N that hold the first occurrence of a reference not in E
Fresh(E, N) ==
  {k \in 1..Len(N) : N[k] \notin Range(E) /\ \A j \in 1..(k - 1) : N[j] # N[k]}

\* C3: a merge of new references N into existing images E writes E, in its
\* order, followed by the elements of N that are not in E, in N's order, each
\* of them once
C3_MergeKeepsOrder ==
  [][\A c \in Clients :
       MergeWrites(c) =>
         LET E == calls[c].existingData[1].images
             N == calls[c].imageUrls
         IN  \A i \in 1..Len(rows') :
               rows'[i].InvoiceNumber = calls[c].invoiceNum =>
                 LET M == rows'[i].images
                 IN  /\ Len(M) = Len(E) + Cardinality(Fresh(E, N))
                     /\ SubSeq(M, 1, Len(E)) = E
                     /\ \A k \in Fresh(E, N) :
                          M[Len(E) + Cardinality({j \in Fresh(E, N) : j <= k})] = N[k]]_vars

\* [b, c] has been merged into [a, b], giving [a, b, c]
C3_Witness ==
  \E c \in Clients :
    /\ calls[c].pc = "returned" /\ calls[c].existingData # Null
    /\ calls[c].existingData[1].images = <<"a", "b">>
    /\ calls[c].imageUrls = <<"b", "c">>
    /\ \E i \in RecordsOf(calls[c].invoiceNum) : rows[i].images = <<"a", "b", "c">>

\* C8: a lookup error other than not-found ends the call in a failure without
\* any write; not-found sends the call to the insert of a new record
C8_LookupErrorAborts ==
  [][\A c \in Clients :
       /\ (calls'[c] # calls[c] /\ calls'[c].lookupError \notin {"none", NotFound})
            => (calls'[c].pc = "thrown" /\ rows' = rows)
       /\ (/\ calls[c].pc \notin {"update", "insert"} /\ calls'[c] # calls[c]
           /\ calls'[c].lookupError = NotFound)
            => (calls'[c].pc = "insert" /\ rows' = rows)
       /\ (calls[c].pc = "insert" /\ calls'[c].pc = "returned")
            => /\ rows' = Append(rows, rows'[Len(rows')])
               /\ rows'[Len(rows')].InvoiceNumber = calls[c].invoiceNum]_vars

\* one call was aborted by a failed lookup, another inserted after a miss
C8_Witness ==
  \E c, d \in Clients :
    /\ calls[c].pc = "thrown" /\ calls[c].lookupError = ConnectionFailure
    /\ calls[d].pc = "returned" /\ calls[d].lookupError = NotFound
    /\ RecordsOf(calls[d].invoiceNum) # {}

\* C9: a merge leaves every column but images and warehouse_notes as it was,
\* and every other record untouched
C9_MergeTouchesTwoColumns ==
  [][\A c \in Clients :
       MergeWrites(c) =>
         /\ Len(rows') = Len(rows)
         /\ \A i \in 1..Len(rows) :
              /\ rows'[i].InvoiceNumber = rows[i].InvoiceNumber
              /\ rows'[i].status = rows[i].status
              /\ rows'[i].team = rows[i].team
              /\ rows'[i].action = rows[i].action
              /\ rows'[i].sales_notes = rows[i].sales_notes
              /\ rows'[i].accountNumber = rows[i].accountNumber
              /\ rows'[i].rNumber = rows[i].rNumber
              /\ rows'[i].created_at = rows[i].created_at
              /\ rows[i].InvoiceNumber # calls[c].invoiceNum => rows'[i] = rows[i]]_vars

\* a submission with another account and returns number was merged into a
\* record that had been assessed
C9_Witness ==
  \E c \in Clients :
    /\ calls[c].pc = "returned" /\ calls[c].existingData # Null
    /\ \E i \in RecordsOf(calls[c].invoiceNum) :
         /\ rows[i].accountNumber # calls[c].accountNumber
         /\ rows[i].rNumber # calls[c].rNum
         /\ rows[i].status = Some(StatusAssessed)
         /\ rows[i].images # calls[c].existingData[1].images

InsertWrites(c) == calls[c].pc = "insert" /\ calls'[c].pc = "returned"

\* a reason with '<' and '>' removed and the white space at its ends trimmed
Stripped(reason) == Trim(SelectSeq(reason, LAMBDA ch : ch \notin {"<", ">"}))

\* C12: an insert appends one record for the invoice number, with images = the
\* successful new references, warehouse notes = the sanitized reason, sales
\* notes empty, status Logged, team and action unset, and the returns number
\* null for the damages variant
C12_InsertedRecord ==
  [][\A c \in Clients :
       InsertWrites(c) =>
         LET r == rows'[Len(rows')]
         IN  /\ rows' = Append(rows, r)
             /\ r.InvoiceNumber = calls[c].invoiceNum
             /\ r.images = calls[c].imageUrls
             /\ r.warehouse_notes = Stripped(calls[c].reason)
             /\ r.sales_notes = <<>>
             /\ r.status = Some(StatusLogged)
             /\ r.team = Null /\ r.action = Null
             /\ calls[c].variant = "damages" => r.rNumber = Null]_vars

IsPrefixOf(s, t) == Len(s) <= Len(t) /\ SubSeq(t, 1, Len(s)) = s

\* C26: in every successful merge write the warehouse notes stored before the
\* write are a prefix of the notes stored after it, also when lookups and
\* writes of several submissions for one invoice number interleave
C26_NotesOnlyGrow ==
  [][\A c \in Clients :
       calls[c].pc = "update" /\ calls'[c].pc = "returned" =>
         \A i \in RecordsOf(calls[c].invoiceNum) :
           IsPrefixOf(rows[i].warehouse_notes, rows'[i].warehouse_notes)]_vars

\* C31: the warehouse notes that reconciliation stores never contain the
\* characters '<' or '>', whatever reason was submitted, also a reason made
\* of '<', '>' and whitespace only
C31_NotesWithoutAngleBrackets ==
  \A i \in 1..Len(rows) : Range(rows[i].warehouse_notes) \cap {"<", ">"} = {}

\* C32: reconciliation never writes without a successful upload: every call
\* that passes its checks holds at least one new reference, and a step that
\* changes the table is the write of a call whose references are in the record
\* afterwards
C32_NoWriteWithoutReference ==
  [][/\ \A c \in Clients :
          calls'[c].pc \in {"lookup", "update", "insert", "returned"} =>
            calls'[c].imageUrls # <<>>
     /\ rows' # rows =>
          \E c \in Clients :
            /\ calls[c].pc \in {"update", "insert"} /\ calls'[c].pc = "returned"
            /\ calls[c].imageUrls # <<>>
            /\ \A u \in Range(calls[c].imageUrls) :
                 \E i \in 1..Len(rows') :
                   rows'[i].InvoiceNumber = calls[c].invoiceNum /\ u \in Range(rows'[i].images)]_vars

\* a call whose upload results hold no success has thrown before its lookup,
\* and the table is as it was
C32_Witness ==
  \E c \in Clients :
    /\ calls[c].pc = "thrown"
    /\ calls[c].error = "No successful uploads to insert"
    /\ rows = <<LoggedBefore>>

\* a step in which the call of client c ends in an error
EndsInError(c) == calls[c].pc # "thrown" /\ calls'[c].pc = "thrown"

\* C33: a reconciliation that ends in an error has applied nothing: the step
\* in which it fails leaves every record as it was, and no earlier step of the
\* call has written, since the table changes only in the step in which a call
\* returns
C33_FailureAppliesNothing ==
  [][/\ \A c \in Clients : EndsInError(c) => rows' = rows
     /\ rows' # rows => \E c \in Clients : calls[c].pc \in {"update", "insert"}
                                            /\ calls'[c].pc = "returned"]_vars

\* the merge write of a call with new references was refused by the store:
\* the call has thrown and the record is the one the forms found
C33_Witness ==
  \E c \in Clients :
    /\ calls[c].pc = "thrown"
    /\ calls[c].error \in {UpdateErrorMessage(PermissionDenied), UpdateErrorMessage(ConnectionFailure)}
    /\ calls[c].invoiceNum = LoggedBefore.InvoiceNumber
    /\ rows = <<LoggedBefore>>

\* C34: a call whose lookup the store answered with a permission-denied error
\* fails with the permission message, as the insert and the merge update do,
\* and not with a generic retry message
C34_PermissionDeniedIsTold ==
  \A c \in Clients :
    calls[c].pc = "thrown" /\ calls[c].lookupError = PermissionDenied =>
      calls[c].error = UpdateErrorMessage(PermissionDenied)

(***************************************************************************)
(* Properties of uploadGalleryItems (SpecUpload)                           *)
(***************************************************************************)
HasPrefix(bytes, sig) == Len(bytes) >= Len(sig) /\ SubSeq(bytes, 1, Len(sig)) = sig

SizeExceeded(item) == item.blob.size > 5242880

TypeNotAllowed(item) ==
  ToLowerCase(item.blob.type) \notin {IMAGE_JPEG, IMAGE_JPG, IMAGE_PNG, IMAGE_WEBP, IMAGE_GIF}

ContentMismatch(item) ==
  ~\E sig \in {<<255, 216>>, <<137, 80, 78, 71>>, <<71, 73, 70>>, <<82, 73, 70, 70>>} :
     HasPrefix(item.blob.head, sig)

FailsGate(item) == SizeExceeded(item) \/ TypeNotAllowed(item) \/ ContentMismatch(item)

\* C6: uploadGalleryItems never throws and returns one result per item, in the
\* order of the items; an item that fails a check has an error result and the
\* items after it are still processed
C6_OneResultPerItem ==
  /\ upl.pc # "thrown"
  /\ Len(upl.results) <= Len(upl.items)
  /\ upl.pc = "returned" <=> Len(upl.results) = Len(upl.items)
  /\ \A k \in 1..Len(upl.results) :
       /\ upl.results[k].itemId = upl.items[k].id
       /\ FailsGate(upl.items[k]) => upl.results[k].error # Null
       /\ upl.results[k].error = Null <=> upl.results[k].publicUrl # Null

\* three items, the second over the size ceiling: success, error, success
C6_Witness ==
  /\ upl.pc = "returned" /\ Len(upl.items) = 3
  /\ SizeExceeded(upl.items[2])
  /\ upl.results[1].error = Null
  /\ upl.results[2].error = Some("File size exceeds 5MB limit")
  /\ upl.results[3].error = Null

\* C7: for an item that fails the size, the type or the content check no object
\* is put: the storage is the same after the item as before
C7_NoPutForRejectedItem ==
  [][(upl.pc = "running" /\ FailsGate(upl.items[Len(upl.results) + 1]))
       => storage' = storage]_vars

\* an item was rejected by the gate after another had been stored
C7_Witness ==
  /\ Len(upl.results) = 2
  /\ upl.results[1].error = Null
  /\ FailsGate(upl.items[2])
  /\ Cardinality(storage) = 1

\* C16: every upload result carries either a storage path together with a
\* public reference, or an error: never both and never neither
C16_ExactlyOneOutcome ==
  \A k \in 1..Len(upl.results) :
    LET r == upl.results[k]
    IN  \/ r.destPath # Null /\ r.publicUrl # Null /\ r.error = Null
        \/ r.destPath = Null /\ r.publicUrl = Null /\ r.error # Null

\* a batch has returned a success, a validation failure and a failed put
C16_Witness ==
  /\ upl.pc = "returned" /\ Len(upl.results) = 3
  /\ \E k \in 1..3 : upl.results[k].error = Null
  /\ \E k \in 1..3 : upl.results[k].error = Some("Failed to upload file. Please try again.")
  /\ \E k \in 1..3 : upl.results[k].error = Some("File size exceeds 5MB limit")

\* C17: an upload whose destination path already holds an object gives an
\* error result for that item and leaves the stored objects as they were;
\* no step replaces or removes a stored object
C17_ExistingObjectKept ==
  [][ /\ storage \subseteq storage'
      /\ upl.pc = "running" =>
           LET k == Len(upl.results) + 1
               it == upl.items[k]
           IN  (\E o \in storage : o.path = DestPath(it, now')) =>
                 /\ Len(upl'.results) = k
                 /\ upl'.results[k].itemId = it.id
                 /\ upl'.results[k].error # Null
                 /\ upl'.results[k].destPath = Null
                 /\ storage' = storage ]_vars

\* the second item passed validation, its path was the one the first item's
\* object holds, and its result is the upload error
C17_Witness ==
  /\ Len(upl.results) >= 2
  /\ ~FailsGate(upl.items[2])
  /\ upl.results[1].error = Null
  /\ upl.results[2].error = Some("Failed to upload file. Please try again.")
  /\ \E o \in storage : /\ o.path = DestPath(upl.items[2], now)
                        /\ o.file.source = upl.items[1].id
  /\ Cardinality(storage) = 1

\* the objects that items of the batch have put
PutBy(k, objects) == {o \in objects : o.file.source = upl.items[k].id}

\* C30: within one batch at most one put is issued per loop turn, it is the
\* put of the item whose turn it is, and its outcome is in the results when
\* the turn ends: the put of item i+1 is not issued before the outcome of
\* item i has been recorded
C30_OnePutAtATime ==
  [][upl.pc = "running" =>
       LET k == Len(upl.results) + 1
       IN  /\ Cardinality(storage' \ storage) <= 1
           /\ storage' \ storage \subseteq PutBy(k, storage')
           /\ Len(upl'.results) = k
           /\ upl'.results[k].itemId = upl.items[k].id
           /\ (storage' # storage) <=> upl'.results[k].error = Null]_vars

\* three items have been put one after the other: each has its object and its
\* successful result
C30_Witness ==
  /\ upl.pc = "returned" /\ Len(upl.items) = 3
  /\ Cardinality(storage) = 3
  /\ \A k \in 1..3 : upl.results[k].error = Null /\ Cardinality(PutBy(k, storage)) = 1

(***************************************************************************)
(* Properties of updateSalesData (SpecUpdateCall)                          *)
(***************************************************************************)
\* the columns updateSalesData can never name
KeptColumns == {"InvoiceNumber", "rNumber", "accountNumber", "images", "created_at"}

\* C18: a call of updateSalesData writes only the fields its updates argument
\* supplies: each of sales notes, warehouse notes, team, status and action
\* that is not supplied, and always images, account number, returns number
\* and created-at, is unchanged in every record
C18_WritesOnlySupplied ==
  [][ /\ Len(rows') = Len(rows)
      /\ \A i \in 1..Len(rows) :
           /\ \A col \in KeptColumns : rows'[i][col] = rows[i][col]
           /\ \A f \in UpdateFields :
                calls[UpdateCaller].payload[f] = Null => rows'[i][f] = rows[i][f] ]_vars

\* a call that supplied status and action only has returned: the record has
\* the new status and action, and its notes and team are those it had
C18_Witness ==
  /\ calls[UpdateCaller].pc = "returned"
  /\ calls[UpdateCaller].payload =
       [NoUpdates EXCEPT !.status = Some(Some(StatusCompleted)), !.action = Some(Null)]
  /\ rows[1] = [LoggedBefore EXCEPT !.status = Some(StatusCompleted), !.action = Null]

(***************************************************************************)
(* Properties of the ISBN-10 check (SpecIsbn10)                            *)
(***************************************************************************)
Isbn10Weights == <<10, 9, 8, 7, 6, 5, 4, 3, 2, 1>>

Isbn10Value(c) == IF c = "X" THEN 10 ELSE DigitVal(c)

\* the checksum condition, written out term by term
Isbn10Checksum(s) ==
  (Isbn10Weights[1] * Isbn10Value(s[1]) + Isbn10Weights[2] * Isbn10Value(s[2])
   + Isbn10Weights[3] * Isbn10Value(s[3]) + Isbn10Weights[4] * Isbn10Value(s[4])
   + Isbn10Weights[5] * Isbn10Value(s[5]) + Isbn10Weights[6] * Isbn10Value(s[6])
   + Isbn10Weights[7] * Isbn10Value(s[7]) + Isbn10Weights[8] * Isbn10Value(s[8])
   + Isbn10Weights[9] * Isbn10Value(s[9]) + Isbn10Weights[10] * Isbn10Value(s[10])) % 11 = 0

Isbn10Accepted(s) ==
  /\ \A i \in 1..9 : s[i] \in {"0", "1", "2", "3", "4", "5", "6", "7", "8", "9"}
  /\ s[10] \in {"0", "1", "2", "3", "4", "5", "6", "7", "8", "9", "X"}
  /\ Isbn10Checksum(s)

\* C20: a string of 10 characters passes isValidISBN10 exactly when its first
\* nine characters are digits, its last is a digit or "X", and the sum of
\* (10 - i) * value(s[i]), i = 0..9, with value("X") = 10, is divisible by 11;
\* "0306406152" passes and "0306406151" does not
C20_Isbn10Check ==
  /\ isValidISBN10(<<"0", "3", "0", "6", "4", "0", "6", "1", "5", "2">>)
  /\ ~isValidISBN10(<<"0", "3", "0", "6", "4", "0", "6", "1", "5", "1">>)
  /\ scan.valid # Null =>
       /\ Len(scan.isbn10) = 10
       /\ scan.valid[1] <=> Isbn10Accepted(scan.isbn10)

\* a candidate ending in "X" with a checksum divisible by 11 has passed
C20_Witness ==
  /\ scan.isbn10 = <<"0", "3", "0", "6", "4", "0", "6", "1", "1", "X">>
  /\ scan.valid = Some(TRUE)

(***************************************************************************)
(* Properties of the ISBN-13 check (SpecIsbn13)                            *)
(***************************************************************************)
\* the digits at the even and at the odd indices (counted from 0)
EvenIndexDigits(s) == DigitVal(s[1]) + DigitVal(s[3]) + DigitVal(s[5]) + DigitVal(s[7]) + DigitVal(s[9]) + DigitVal(s[11]) + DigitVal(s[13])

OddIndexDigits(s) == DigitVal(s[2]) + DigitVal(s[4]) + DigitVal(s[6]) + DigitVal(s[8]) + DigitVal(s[10]) + DigitVal(s[12])

Isbn13Accepted(s) ==
  /\ \A i \in 1..13 : s[i] \in {"0", "1", "2", "3", "4", "5", "6", "7", "8", "9"}
  /\ (EvenIndexDigits(s) + 3 * OddIndexDigits(s)) % 10 = 0

\* C21: a string of 13 characters passes isValidISBN13 exactly when all its
\* characters are digits and the sum of its digits, weighted 1 at the even
\* indices and 3 at the odd ones, is divisible by 10; "9780306406157" passes
C21_Isbn13Check ==
  /\ isValidISBN13(<<"9", "7", "8", "0", "3", "0", "6", "4", "0", "6", "1", "5", "7">>)
  /\ ("isbn13" \in DOMAIN scan /\ scan.valid # Null) =>
       /\ Len(scan.isbn13) = 13
       /\ scan.valid[1] <=> Isbn13Accepted(scan.isbn13)

\* "9780306406157" has passed
C21_Witness ==
  /\ "isbn13" \in DOMAIN scan
  /\ scan.isbn13 = <<"9", "7", "8", "0", "3", "0", "6", "4", "0", "6", "1", "5", "7">>
  /\ scan.valid = Some(TRUE)

(***************************************************************************)
(* Properties of extractISBN (SpecExtract)                                 *)
(***************************************************************************)
\* C22: for every text extractISBN returns null or a normalized string (no
\* hyphen, no space, upper case) that has length 13 and passes the long-form
\* checksum or has length 10 and passes the short-form checksum; it returns
\* "9780306406157" for "foo 9780306406157 bar" and null for "no code here"
C22_ExtractedIsbn ==
  /\ extractISBN(<<"f", "o", "o", " ", "9", "7", "8", "0", "3", "0", "6", "4", "0", "6", "1", "5", "7", " ", "b", "a", "r">>) = Some(<<"9", "7", "8", "0", "3", "0", "6", "4", "0", "6", "1", "5", "7">>)
  /\ extractISBN(<<"n", "o", " ", "c", "o", "d", "e", " ", "h", "e", "r", "e">>) = Null
  /\ ("decoded" \in DOMAIN scan /\ scan.decoded /\ scan.detectedIsbn # Null) =>
       LET isbn == scan.detectedIsbn[1]
       IN  /\ \A i \in 1..Len(isbn) : isbn[i] \notin {"-", " "} \cup Range(LowerSeq)
           /\ \/ Len(isbn) = 13 /\ Isbn13Accepted(isbn)
              \/ Len(isbn) = 10 /\ Isbn10Accepted(isbn)

\* a hyphenated short form ending in a lower-case x was read after other text
C22_Witness ==
  /\ "decoded" \in DOMAIN scan /\ scan.decoded
  /\ scan.decodedText = <<"I", "S", "B", "N", ":", "0", "-", "3", "0", "6", "-", "4", "0", "6", "1", "1", "-", "x", " ", "b", "a", "r">>
  /\ scan.detectedIsbn = Some(<<"0", "3", "0", "6", "4", "0", "6", "1", "1", "X">>)

\* some stretch of 10 to 17 candidate characters of the text is an identifier
\* once hyphens and spaces are removed
HoldsIsbn(text) ==
  \E p \in 1..Len(text), n \in 10..17 :
    /\ p + n - 1 <= Len(text)
    /\ \A q \in p..(p + n - 1) : text[q] \in CandidateChars
    /\ IsIsbn(Normalized(SubSeq(text, p, p + n - 1)))

\* C36: extractISBN returns null only for a text of which no stretch of 10 to
\* 17 digits, X, x, hyphens and spaces normalizes to a checksum-valid
\* identifier; "9780306406157 0306406152" is among the texts read
C36_NullOnlyWithoutIsbn ==
  ("decoded" \in DOMAIN scan /\ scan.decoded /\ scan.detectedIsbn = Null) =>
     ~HoldsIsbn(scan.decodedText)

(***************************************************************************)
(* Properties of the menu page (SpecMenu)                                  *)
(***************************************************************************)
Unset(v) == v = Null \/ Trim(TextOrEmpty(v)) = <<>>

\* the page is asked to mark the selected item Completed while the panel's
\* team or action is empty
CompletedRefused ==
  toast' # toast /\ toast' \in {"Please assign a team before marking as Completed",
                                "Please select an action before marking as Completed"}

C4_NoSecondPut ==
  \A o1, o2 \in storage : o1.file.source = o2.file.source => o1 = o2

\* the step in which handleSubmit's catch block handles a failed reconciliation
ReconciliationFails ==
  /\ sub.pc \in {"reconciling", "writing"}
  /\ calls'[DamagesPage].pc = "thrown"
  /\ sub'.pc = "idle"

\* C5: when reconciliation throws, the failure handler leaves every item that
\* the submission had marked uploaded in the queue, with uploaded = false and
\* uploading = false, and removes no item from the queue
C5_RollbackToPending ==
  [][ReconciliationFails =>
       /\ Len(gallery') = Len(gallery)
       /\ \A i \in 1..Len(gallery) :
            /\ gallery'[i].id = gallery[i].id
            /\ (gallery[i].uploaded \/ gallery[i].id \in SuccessIds(sub.finalUploadResults))
                 => (~gallery'[i].uploaded /\ ~gallery'[i].uploading)]_vars

\* two items were uploaded and marked, the reconciliation failed, and both are
\* pending in the queue again
C5_Witness ==
  /\ sub.pc = "idle" /\ calls[DamagesPage].pc = "thrown"
  /\ toast = "Error submitting data:"
  /\ Len(gallery) = 2
  /\ \A i \in 1..Len(gallery) :
       /\ ~gallery[i].uploaded /\ ~gallery[i].uploading
       /\ \E o \in storage : o.file.source = gallery[i].id
       /\ gallery[i].id \in SuccessIds(uploadResultsRef)

\* the step in which the submission's reconciliation returns successfully
ReconciliationSucceeds ==
  sub.pc = "writing" /\ calls'[DamagesPage].pc = "returned"

\* C14: in the step in which a submission's reconciliation succeeds the queue
\* and the accumulated upload results become empty and every form field is
\* reset to empty, so that no user action sees them otherwise
C14_SuccessClears ==
  [][ReconciliationSucceeds =>
       /\ gallery' = <<>>
       /\ uploadResultsRef' = <<>>
       /\ formData'.creditNumber = <<>> /\ formData'.accNumber = <<>>
       /\ formData'.rNumber = <<>> /\ formData'.reason = <<>>
       /\ sub'.pc = "idle" /\ ~loading']_vars

\* a submission of two photos has succeeded: the record is stored, queue,
\* results and form are empty
C14_Witness ==
  /\ toast = "Damages data submitted successfully!"
  /\ sub.pc = "idle" /\ calls[DamagesPage].pc = "returned"
  /\ Len(rows) = 1 /\ Len(rows[1].images) = 2
  /\ gallery = <<>> /\ uploadResultsRef = <<>> /\ formData = EmptyForm

\* the successful results among those a submission passes to insertDamagesData
Reconciled == SelectSeq(sub.finalUploadResults, LAMBDA r : r.error = Null /\ r.publicUrl # Null)

\* C23: the references a submission passes to reconciliation are one per
\* queued item whose upload succeeded, also after earlier submissions of the
\* same queue have failed: no item has two references among them
C23_OneReferencePerItem ==
  sub.pc \in {"reconciling", "writing"} =>
    /\ \A i, j \in 1..Len(Reconciled) : Reconciled[i].itemId = Reconciled[j].itemId => i = j
    /\ \A k \in 1..Len(gallery) :
         gallery[k].uploaded => \E i \in 1..Len(Reconciled) : Reconciled[i].itemId = gallery[k].id

\* the items of the batch that the submission in flight started
InBatch(id) == \E i \in 1..Len(upl.items) : upl.items[i].id = id

\* the stored records hold the reference of a successful result for item id
StoredFor(id, stored) ==
  \E i \in 1..Len(Reconciled), n \in 1..Len(stored) :
    /\ Reconciled[i].itemId = id
    /\ Reconciled[i].publicUrl[1] \in Range(stored[n].images)

\* C24: in the step in which a submission's reconciliation succeeds and the
\* queue is cleared, every queued item that was part of the submission's batch
\* has a reference in the stored record: no item whose upload failed is
\* discarded by the clear
C24_ClearedItemsStored ==
  [][ReconciliationSucceeds =>
       \A k \in 1..Len(gallery) : InBatch(gallery[k].id) => StoredFor(gallery[k].id, rows')]_vars

\* item id is in the queue q
Queued(id, q) == \E k \in 1..Len(q) : q[k].id = id

\* C25: an item added to the queue while a submission is in flight (it is not
\* part of the submission's batch and not uploaded) is, when that submission
\* succeeds, still in the queue or referenced in the stored record
C25_LateItemKept ==
  [][ReconciliationSucceeds =>
       \A k \in 1..Len(gallery) :
         ~InBatch(gallery[k].id) /\ ~gallery[k].uploaded =>
           Queued(gallery[k].id, gallery') \/ StoredFor(gallery[k].id, rows')]_vars

\* the upload state the gallery shows for an item
UploadState(item) ==
  IF item.uploaded THEN "Uploaded" ELSE IF item.uploading THEN "Uploading" ELSE "Pending"

\* the batch of the submission in flight has a successful result for item id
UploadedInBatch(id, results) ==
  \E i \in 1..Len(results) : results[i].itemId = id /\ results[i].error = Null

\* C27: every change of a queued item's upload state is Pending to Uploading
\* in the step that starts a batch, Uploading to Uploaded once its upload has
\* succeeded, or Uploaded to Pending in the step of a failed reconciliation
C27_UploadStateChanges ==
  [][\A k \in 1..Len(gallery), j \in 1..Len(gallery') :
       gallery[k].id = gallery'[j].id /\ UploadState(gallery[k]) # UploadState(gallery'[j]) =>
         \/ /\ UploadState(gallery[k]) = "Pending" /\ UploadState(gallery'[j]) = "Uploading"
            /\ sub.pc = "idle" /\ sub'.pc = "uploading"
         \/ /\ UploadState(gallery[k]) = "Uploading" /\ UploadState(gallery'[j]) = "Uploaded"
            /\ UploadedInBatch(gallery[k].id, upl'.results)
         \/ /\ UploadState(gallery[k]) = "Uploaded" /\ UploadState(gallery'[j]) = "Pending"
            /\ ReconciliationFails]_vars

\* C28: whenever no submission is in flight no queued item is in the
\* Uploading state: an item whose upload failed is Pending again once its
\* batch has finished
C28_IdleNothingUploading ==
  sub.pc = "idle" /\ ~loading => \A k \in 1..Len(gallery) : ~gallery[k].uploading

\* C29: a not yet uploaded item that the user has removed from the queue is
\* not put to object storage afterwards, also when it is removed while the
\* batch is running and before its own upload has started: every object a step
\* adds to the storage comes from an item that is in the queue
C29_RemovedNotUploaded ==
  [][\A o \in storage' \ storage : Queued(o.file.source, gallery)]_vars

\* the ids of the queued items, in queue order
QueueIds(q) == [k \in 1..Len(q) |-> q[k].id]

\* the step in which a submission ends: the loading flag is cleared
SubmissionEnds == loading /\ ~loading'

\* the outcome "reconciled": the record is stored, queue and form are empty
EndsReconciled ==
  /\ calls'[DamagesPage].pc = "returned"
  /\ toast' = "Damages data submitted successfully!"
  /\ gallery' = <<>> /\ uploadResultsRef' = <<>> /\ formData' = EmptyForm

\* the outcome "failed or aborted": every queued item and every entered value
\* is kept
EndsFailed ==
  /\ toast' \in {"Error submitting data:",
                 "Please capture at least one image before submitting"}
  /\ QueueIds(gallery') = QueueIds(gallery)
  /\ formData' = formData

\* C40: when every put and every store call returns, a submission that has set
\* the loading flag ends with the flag cleared, and the step that clears it is
\* either the reconciled outcome or the failed one, never both and never
\* neither; while the submission runs the flag is set, and the put and the
\* lookup it waits for can be answered
C40_SubmissionEnds ==
  /\ loading ~> ~loading
  /\ [][SubmissionEnds => (EndsReconciled /\ ~EndsFailed) \/ (EndsFailed /\ ~EndsReconciled)]_vars
  /\ [](sub.pc # "idle" => loading)
  /\ [](sub.pc = "uploading" => upl.pc = "running")
  /\ [](sub.pc = "reconciling" => calls[DamagesPage].pc \in {"idle", "returned", "thrown"})

\* a submission has ended in each of the two outcomes: the first failed and
\* kept the queue, the second stored the record
C40_Witness ==
  /\ used.submits = 2 /\ ~loading /\ sub.pc = "idle"
  /\ toast = "Damages data submitted successfully!"
  /\ calls[DamagesPage].pc = "returned"
  /\ gallery = <<>> /\ formData = EmptyForm
  /\ Cardinality(storage) >= 2

(***************************************************************************)
(* Properties of handleSubmit (SpecSubmit)                                 *)
(***************************************************************************)
\* the field-format policy of the damages and overstock forms
AccountWellFormed(acc) ==
  /\ Len(acc) = 6
  /\ \A i \in 1..3 : acc[i] \in UpperLetters
  /\ \A i \in 4..6 : acc[i] \in Digits

EightDigits(n) == Len(n) = 8 /\ \A i \in 1..8 : n[i] \in Digits

IllFormed(fd, overstock) ==
  \/ ~AccountWellFormed(fd.accNumber)
  \/ ~EightDigits(fd.creditNumber)
  \/ overstock /\ ~EightDigits(fd.rNumber)
  \/ Len(fd.reason) > 1000

OverstockForms ==
  [creditNumber : {<<"2", "1", "0", "0", "0", "0", "0", "1">>},
   rNumber : {<<"5", "6", "0", "1", "2", "3", "2", "2">>, <<"5", "6">>, <<>>},
   accNumber : {<<"A", "B", "C", "1", "2", "3">>, <<"A", "B", "1">>},
   reason : {<<>>, <<"x">>}]

\* C15: a submit with an ill-formed account number, invoice number, returns
\* number (overstock) or reason stops at the checks: nothing is put to the
\* storage, no record is written, and the queue and its items are unchanged
C15_IllFormedSubmitStops ==
  /\ \A fd \in OverstockForms :
       IllFormed(fd, TRUE) <=> SubmitRejection(fd, FALSE, TRUE) # ""
  /\ [][(sub.pc = "idle" /\ IllFormed(formData, FALSE)) =>
          /\ storage' = storage /\ upl' = upl
          /\ rows' = rows /\ calls' = calls
          /\ gallery' = gallery /\ uploadResultsRef' = uploadResultsRef
          /\ sub'.pc = "idle" /\ ~loading']_vars

\* a submit was stopped by the invoice number's format, with two items queued
C15_Witness ==
  /\ toast = "Invoice number must be exactly 8 digits"
  /\ formData.creditNumber = <<"2", "1", "0">>
  /\ Len(gallery) = 2 /\ \A i \in 1..2 : ~gallery[i].uploaded /\ ~gallery[i].uploading
  /\ storage = {} /\ rows = <<>> /\ sub.pc = "idle"

(***************************************************************************)
(* Properties of the strict validators (SpecValidate)                      *)
(***************************************************************************)
\* C35: with the strict format validateInvoiceNumber accepts a text exactly
\* when, trimmed, it consists of 8 digits, and validateAccountNumber accepts
\* exactly when the trimmed text in upper case is 3 letters and 3 digits
C35_StrictFormats ==
  ("field" \in DOMAIN scan /\ scan.result # Null) =>
     /\ scan.field = "creditNumber" =>
          (scan.result[1].valid <=> EightDigits(Trim(scan.text)))
     /\ scan.field = "accNumber" =>
          (scan.result[1].valid <=> AccountWellFormed(ToUpperCase(Trim(scan.text))))

(***************************************************************************)
(* Properties of the upload gate (SpecGate)                                *)
(***************************************************************************)
\* FF D8, 89 50 4E 47, 47 49 46, 52 49 46 46
Signatures == {<<255, 216>>, <<137, 80, 78, 71>>, <<71, 73, 70>>, <<82, 73, 70, 70>>}

\* C37: the content check accepts a blob exactly when its first bytes are one
\* of the four signatures, whatever type the blob declares; a blob shorter
\* than a signature, the empty blob included, does not pass by that signature
C37_SignatureDecides ==
  ("blob" \in DOMAIN scan /\ scan.contentValidation # Null) =>
     (scan.contentValidation[1].valid <=>
        \E signature \in Signatures : HasPrefix(scan.blob.head, signature))

\* a blob declared text/html that starts with the PNG signature has passed the
\* content check
C37_Witness ==
  /\ "blob" \in DOMAIN scan
  /\ scan.blob.type = TEXT_HTML /\ scan.blob.head = <<137, 80, 78, 71>>
  /\ scan.contentValidation = Some(Accepted)

\* C38: the item is rejected with the size error exactly when its blob has
\* more than 5 * 1024 * 1024 bytes: a blob of exactly that size passes the
\* size check, and one byte more gets the size error whatever its type and its
\* first bytes are, the size check being the first
C38_SizeCeiling ==
  ("blob" \in DOMAIN scan /\ upl.pc = "returned") =>
     /\ upl.results[1].error = Some("File size exceeds 5MB limit")
          <=> upl.items[1].blob.size > 5 * 1024 * 1024
     /\ validateFileSize(5 * 1024 * 1024).valid
     /\ ~validateFileSize(5 * 1024 * 1024 + 1).valid

\* a JPEG of exactly 5 MiB has been stored
C38_Witness ==
  /\ "blob" \in DOMAIN scan /\ upl.pc = "returned"
  /\ upl.items[1].blob.size = 5 * 1024 * 1024
  /\ upl.results[1].error = Null
  /\ Cardinality(storage) = 1

(***************************************************************************)
(* Properties of the photo capture (SpecCapture)                           *)
(***************************************************************************)
\* a step that ends a capture without a new item in the queue
CaptureEndsEmpty ==
  /\ scan.pending \in {"toBlob", "load", "fileToBlob"}
  /\ scan'.pending = "none"
  /\ gallery' = gallery

\* C39: when the image does not decode or the JPEG encoder yields no data, no
\* item is added to the queue and an error is set: the capture does not end
\* silently
C39_FailedCaptureIsReported ==
  [][CaptureEndsEmpty => scan'.error # Null]_vars

====
